---- MODULE Spec2Model ----
(***************************************************************************)
(* Path-Wise: the AI request pipeline (lib/gemini: cleanJsonResponse,      *)
(* makeGeminiRequest, generateQuestions, generateRoadmap,                  *)
(* generateLessonContent) and the progress bookkeeping of the lesson       *)
(* screens (LessonView.completeTest, LessonsList.isLessonUnlocked).        *)
(*                                                                         *)
(* Texts are sequences of one-character strings.  Three specifications     *)
(* share the variables:                                                    *)
(*   SpecNormalizer  cleanJsonResponse applied to bounded texts            *)
(*   Spec            one caller invoking the generation facade             *)
(*   SpecProgress    test completions against one user_progress row and    *)
(*                   the lessons list that reads the completions           *)
(***************************************************************************)
EXTENDS Integers, Sequences, FiniteSets, TLC

\* ---------------------------------------------------------------- bounds
\* longest inner text given to cleanJsonResponse in SpecNormalizer
MaxLen == 4
\* longest text payload the mocked endpoint returns in Spec
MaxRespLen == 2
\* number of facade invocations the caller makes in Spec
MaxCalls == 2
\* number of completeTest runs in SpecProgress
MaxCompletions == 2
\* largest number of assessment questions of a lesson in SpecProgress
MaxQuestions == 3
MaxWeeks == 2
MaxTopics == 1
MaxStrLen == 2
MaxRuns == 2
MaxOpened == 2
MaxAuthEvents == 2
MaxUsers == 2
TopicsPerWeek == 2
RoadmapQuestions == 1
\* number of lesson rows of the roadmap in SpecProgress
NumLessons == 3
\* makeGeminiRequest calls in flight at the same time
MaxInFlight == 2
\* rows the table roadmaps takes
MaxRoadmaps == 1
\* LessonView sessions (tabs) of one user
MaxSessions == 2
\* signIn and signUp calls
MaxSignCalls == 1

\* ---------------------------------------------------------------- text
Ws == {" ", "\n"}

IsWs(c) == c \in Ws

RECURSIVE TrimStart(_)
TrimStart(s) == IF s # <<>> /\ IsWs(Head(s)) THEN TrimStart(Tail(s)) ELSE s

RECURSIVE TrimEnd(_)
TrimEnd(s) ==
  IF s # <<>> /\ IsWs(s[Len(s)]) THEN TrimEnd(SubSeq(s, 1, Len(s) - 1)) ELSE s

\* String.prototype.trim
Trim(s) == TrimEnd(TrimStart(s))

\* String.prototype.startsWith / endsWith
StartsWith(s, p) == Len(s) >= Len(p) /\ SubSeq(s, 1, Len(p)) = p
EndsWith(s, p) == Len(s) >= Len(p) /\ SubSeq(s, Len(s) - Len(p) + 1, Len(s)) = p

\* String.prototype.substring(begin, end) and substring(begin), 0-based, end exclusive
Substring(s, begin, end) == SubSeq(s, begin + 1, end)
SubstringFrom(s, begin) == SubSeq(s, begin + 1, Len(s))

\* String.prototype.indexOf / lastIndexOf of one character, 0-based, -1 when absent
IndexOf(s, c) ==
  IF \E i \in 1..Len(s) : s[i] = c
  THEN (CHOOSE i \in 1..Len(s) : s[i] = c /\ \A j \in 1..(i - 1) : s[j] # c) - 1
  ELSE -1

LastIndexOf(s, c) ==
  IF \E i \in 1..Len(s) : s[i] = c
  THEN (CHOOSE i \in 1..Len(s) : s[i] = c /\ \A j \in (i + 1)..Len(s) : s[j] # c) - 1
  ELSE -1

\* the backtick character (the lexer accepts no backtick inside a string)
Backtick == "~"

Fence == <<Backtick, Backtick, Backtick>>
FenceJson == Fence \o <<"j", "s", "o", "n">>

\* the mutant of RegexMatch: the match ends at the first closing character
RegexMatchShortest(s, open, close) ==
  LET first == IndexOf(s, open)
      rest == SubstringFrom(s, first + 1)
      last == IF first # -1 /\ IndexOf(rest, close) # -1
              THEN first + 1 + IndexOf(rest, close) ELSE -1
  IN IF first # -1 /\ last > first
     THEN [found |-> TRUE, index |-> first, text |-> Substring(s, first, last + 1)]
     ELSE [found |-> FALSE, index |-> -1, text |-> <<>>]

\* cleaned.match of the object regex and of the array regex: the leftmost
\* opening character that has a closing character after it, greedily up to the
\* last closing character; found = FALSE stands for null.
RegexMatch(s, open, close) ==
  LET first == IndexOf(s, open)
      last == LastIndexOf(s, close)
  IN IF first # -1 /\ last > first
     THEN [found |-> TRUE, index |-> first, text |-> Substring(s, first, last + 1)]
     ELSE [found |-> FALSE, index |-> -1, text |-> <<>>]

\* the mutant of StripFences: the language tag is left behind the opening fence
StripFencesKeepTag(content) ==
  LET t == Trim(content)
      opened == IF StartsWith(t, Fence) THEN SubstringFrom(t, 3) ELSE t
      closed == IF EndsWith(opened, Fence)
                THEN Substring(opened, 0, Len(opened) - 3)
                ELSE opened
  IN Trim(closed)

\* lines 6-19: trim, strip the opening and the closing fence, trim
StripFences(content) ==
  LET t == Trim(content)
      opened == IF StartsWith(t, FenceJson) THEN SubstringFrom(t, 7)
                ELSE IF StartsWith(t, Fence) THEN SubstringFrom(t, 3)
                ELSE t
      closed == IF EndsWith(opened, Fence)
                THEN Substring(opened, 0, Len(opened) - 3)
                ELSE opened
  IN Trim(closed)

\* lines 32-46: the indexOf fallback taken when neither regex matched
FallbackExtract(cleaned) ==
  LET firstBrace == IndexOf(cleaned, "{")
      lastBrace == LastIndexOf(cleaned, "}")
      firstBracket == IndexOf(cleaned, "[")
      lastBracket == LastIndexOf(cleaned, "]")
  IN IF firstBrace # -1 /\ lastBrace # -1 /\ lastBrace > firstBrace
     THEN Substring(cleaned, firstBrace, lastBrace + 1)
     ELSE IF firstBracket # -1 /\ lastBracket # -1 /\ lastBracket > firstBracket
          THEN Substring(cleaned, firstBracket, lastBracket + 1)
          ELSE cleaned

\* the mutant of ExtractJson: the object match is preferred whenever it exists
ExtractJsonObjectFirst(cleaned) ==
  LET jsonObjectMatch == RegexMatch(cleaned, "{", "}")
      jsonArrayMatch == RegexMatch(cleaned, "[", "]")
  IN IF jsonObjectMatch.found THEN jsonObjectMatch.text
     ELSE IF jsonArrayMatch.found THEN jsonArrayMatch.text
     ELSE FallbackExtract(cleaned)

\* lines 21-52: choose between the array match and the object match
ExtractJson(cleaned) ==
  LET jsonObjectMatch == RegexMatch(cleaned, "{", "}")
      jsonArrayMatch == RegexMatch(cleaned, "[", "]")
  IN IF jsonArrayMatch.found
        /\ (~jsonObjectMatch.found \/ jsonArrayMatch.index < jsonObjectMatch.index)
     THEN jsonArrayMatch.text
     ELSE IF jsonObjectMatch.found THEN jsonObjectMatch.text
     ELSE FallbackExtract(cleaned)

cleanJsonResponse(content) == ExtractJson(StripFences(content))

\* ------------------------------------------------------- bounded inputs
RECURSIVE TextsUpTo(_, _)
TextsUpTo(alphabet, n) ==
  IF n = 0 THEN {<<>>}
  ELSE LET shorter == TextsUpTo(alphabet, n - 1)
       IN shorter \cup {<<c>> \o t : c \in alphabet, t \in {u \in shorter : Len(u) = n - 1}}

\* characters of the inner texts of SpecNormalizer: braces, brackets, prose, blank
NormAlphabet == {"{", "}", "[", "]", "x", " "}

\* what may precede and follow the inner text: nothing, a fence, a tagged fence
Openings == {<<>>, Fence \o <<"\n">>, FenceJson \o <<"\n">>}
Closings == {<<>>, <<"\n">> \o Fence}

\* a text inside a code block: the opening marker, the text and the closing
\* marker on lines of their own
FenceWrap(marker, t) == marker \o <<"\n">> \o t \o <<"\n">> \o Fence

\* the characters of the inner texts of SpecFence
FenceAlphabet == NormAlphabet \cup {Backtick}

NormInputs ==
  {o \o t \o c : o \in Openings, t \in TextsUpTo(NormAlphabet, MaxLen), c \in Closings}

\* ---------------------------------------------------------------- JSON
\* JSON.parse over the characters { } [ ] " : , 1 x and white space: a
\* recursive-descent recogniser.  Each Parse operator takes the 1-based
\* position to read and returns the position after what it read, 0 on a
\* syntax error.
RECURSIVE SkipWs(_, _)
SkipWs(s, i) == IF i <= Len(s) /\ IsWs(s[i]) THEN SkipWs(s, i + 1) ELSE i

At(s, i, c) == i >= 1 /\ i <= Len(s) /\ s[i] = c

RECURSIVE ParseDigits(_, _)
ParseDigits(s, i) == IF At(s, i, "1") THEN ParseDigits(s, i + 1) ELSE i

\* i is the position after the opening quote
RECURSIVE ParseString(_, _)
ParseString(s, i) ==
  IF i > Len(s) \/ s[i] = "\n" THEN 0
  ELSE IF s[i] = "\"" THEN i + 1
  ELSE ParseString(s, i + 1)

RECURSIVE ParseValue(_, _)
RECURSIVE ParseElements(_, _)
RECURSIVE ParseMembers(_, _)

ParseValue(s, i) ==
  IF i < 1 \/ i > Len(s) THEN 0
  ELSE IF s[i] = "[" THEN
         LET j == SkipWs(s, i + 1)
         IN IF At(s, j, "]") THEN j + 1 ELSE ParseElements(s, j)
  ELSE IF s[i] = "{" THEN
         LET j == SkipWs(s, i + 1)
         IN IF At(s, j, "}") THEN j + 1 ELSE ParseMembers(s, j)
  ELSE IF s[i] = "\"" THEN ParseString(s, i + 1)
  ELSE IF s[i] = "1" THEN ParseDigits(s, i + 1)
  ELSE 0

\* value (ws , ws value)* ws ]
ParseElements(s, i) ==
  LET v == ParseValue(s, i)
      j == SkipWs(s, v)
  IN IF v = 0 THEN 0
     ELSE IF At(s, j, "]") THEN j + 1
     ELSE IF At(s, j, ",") THEN ParseElements(s, SkipWs(s, j + 1))
     ELSE 0

\* string ws : ws value (ws , ws string ws : ws value)* ws }
ParseMembers(s, i) ==
  LET k == IF At(s, i, "\"") THEN ParseString(s, i + 1) ELSE 0
      c == SkipWs(s, k)
      v == IF k # 0 /\ At(s, c, ":") THEN ParseValue(s, SkipWs(s, c + 1)) ELSE 0
      j == SkipWs(s, v)
  IN IF v = 0 THEN 0
     ELSE IF At(s, j, "}") THEN j + 1
     ELSE IF At(s, j, ",") THEN ParseMembers(s, SkipWs(s, j + 1))
     ELSE 0

JsonValid(s) ==
  LET v == ParseValue(s, SkipWs(s, 1))
  IN v # 0 /\ SkipWs(s, v) = Len(s) + 1

\* the kind of value a valid text decodes to
JsonType(s) ==
  LET c == s[SkipWs(s, 1)]
  IN IF c = "[" THEN "array"
     ELSE IF c = "{" THEN "object"
     ELSE IF c = "\"" THEN "string"
     ELSE "number"

\* the value JSON.parse returns, or the SyntaxError it throws
NoValue == [type |-> "none", json |-> <<>>]
Err(name, message, status, body) ==
  [name |-> name, message |-> message, status |-> status, body |-> body]
NoError == Err("none", "", 0, <<>>)

Returned(v) == [kind |-> "value", value |-> v, error |-> NoError]
Thrown(e) == [kind |-> "error", value |-> NoValue, error |-> e]
Pending == [kind |-> "pending", value |-> NoValue, error |-> NoError]

JsonParse(s) ==
  IF JsonValid(s)
  THEN Returned([type |-> JsonType(s), json |-> s])
  ELSE Thrown(Err("SyntaxError", "Unexpected token in JSON", 0, <<>>))

\* ---------------------------------------------------------- JSON values
\* A decoded value carries its kind k and its content v: the characters of a
\* string, the digits of a number, the elements of an array, the members of
\* an object in insertion order.
Str(x) == [k |-> "string", v |-> x]
Num(digits) == [k |-> "number", v |-> digits]
Arr(elements) == [k |-> "array", v |-> elements]
Obj(members) == [k |-> "object", v |-> members]
Member(key, value) == [key |-> key, value |-> value]

\* JSON.stringify of a string: the quote, the backslash and the line feed are
\* escaped
RECURSIVE Escape(_)
Escape(x) ==
  IF x = <<>> THEN <<>>
  ELSE (IF Head(x) = "\"" THEN <<"\\", "\"">>
        ELSE IF Head(x) = "\\" THEN <<"\\", "\\">>
        ELSE IF Head(x) = "\n" THEN <<"\\", "n">>
        ELSE <<Head(x)>>) \o Escape(Tail(x))

Quote(x) == <<"\"">> \o Escape(x) \o <<"\"">>

\* JSON.stringify(value) without indentation
RECURSIVE Stringify(_)
RECURSIVE StringifyElements(_, _)
RECURSIVE StringifyMembers(_, _)

Stringify(value) ==
  IF value.k = "string" THEN Quote(value.v)
  ELSE IF value.k = "number" THEN value.v
  ELSE IF value.k = "array" THEN <<"[">> \o StringifyElements(value.v, 1) \o <<"]">>
  ELSE <<"{">> \o StringifyMembers(value.v, 1) \o <<"}">>

StringifyElements(elements, i) ==
  IF i > Len(elements) THEN <<>>
  ELSE (IF i > 1 THEN <<",">> ELSE <<>>)
       \o Stringify(elements[i]) \o StringifyElements(elements, i + 1)

StringifyMembers(members, i) ==
  IF i > Len(members) THEN <<>>
  ELSE (IF i > 1 THEN <<",">> ELSE <<>>)
       \o Quote(members[i].key) \o <<":">> \o Stringify(members[i].value)
       \o StringifyMembers(members, i + 1)

\* JSON.parse producing the value.  Each Decode operator takes the position to
\* read and returns the position after what it read, 0 on a syntax error,
\* with the value read.  Of the escapes it reads those Escape writes and the
\* solidus; of the numbers, digit runs; the literals true, false and null are
\* not in any alphabet of the model.
DecodeFail == [pos |-> 0, val |-> Str(<<>>)]

\* i is the position after the opening quote
RECURSIVE DecodeString(_, _, _)
DecodeString(s, i, acc) ==
  IF i > Len(s) \/ s[i] = "\n" THEN DecodeFail
  ELSE IF s[i] = "\"" THEN [pos |-> i + 1, val |-> Str(acc)]
  ELSE IF s[i] = "\\" THEN
         IF i + 1 > Len(s) THEN DecodeFail
         ELSE IF s[i + 1] \in {"\"", "\\", "/"}
              THEN DecodeString(s, i + 2, Append(acc, s[i + 1]))
         ELSE IF s[i + 1] = "n" THEN DecodeString(s, i + 2, Append(acc, "\n"))
         ELSE DecodeFail
  ELSE DecodeString(s, i + 1, Append(acc, s[i]))

\* a key met again keeps its place and takes the later value
SetMember(members, key, value) ==
  IF \E m \in DOMAIN members : members[m].key = key
  THEN [m \in DOMAIN members |->
          IF members[m].key = key THEN Member(key, value) ELSE members[m]]
  ELSE Append(members, Member(key, value))

RECURSIVE DecodeValue(_, _)
RECURSIVE DecodeElements(_, _, _)
RECURSIVE DecodeMembers(_, _, _)

DecodeValue(s, i) ==
  IF i < 1 \/ i > Len(s) THEN DecodeFail
  ELSE IF s[i] = "[" THEN
         LET j == SkipWs(s, i + 1)
         IN IF At(s, j, "]") THEN [pos |-> j + 1, val |-> Arr(<<>>)]
            ELSE DecodeElements(s, j, <<>>)
  ELSE IF s[i] = "{" THEN
         LET j == SkipWs(s, i + 1)
         IN IF At(s, j, "}") THEN [pos |-> j + 1, val |-> Obj(<<>>)]
            ELSE DecodeMembers(s, j, <<>>)
  ELSE IF s[i] = "\"" THEN DecodeString(s, i + 1, <<>>)
  ELSE IF s[i] = "1"
       THEN [pos |-> ParseDigits(s, i + 1),
             val |-> Num(SubSeq(s, i, ParseDigits(s, i + 1) - 1))]
  ELSE DecodeFail

\* value (ws , ws value)* ws ]
DecodeElements(s, i, acc) ==
  LET r == DecodeValue(s, i)
      j == SkipWs(s, r.pos)
  IN IF r.pos = 0 THEN DecodeFail
     ELSE IF At(s, j, "]") THEN [pos |-> j + 1, val |-> Arr(Append(acc, r.val))]
     ELSE IF At(s, j, ",") THEN DecodeElements(s, SkipWs(s, j + 1), Append(acc, r.val))
     ELSE DecodeFail

\* string ws : ws value (ws , ws string ws : ws value)* ws }
DecodeMembers(s, i, acc) ==
  IF ~At(s, i, "\"") THEN DecodeFail
  ELSE LET key == DecodeString(s, i + 1, <<>>)
           colon == SkipWs(s, key.pos)
           r == DecodeValue(s, SkipWs(s, colon + 1))
           j == SkipWs(s, r.pos)
       IN IF key.pos = 0 \/ ~At(s, colon, ":") THEN DecodeFail
          ELSE IF r.pos = 0 THEN DecodeFail
          ELSE IF At(s, j, "}")
               THEN [pos |-> j + 1, val |-> Obj(SetMember(acc, key.val.v, r.val))]
          ELSE IF At(s, j, ",")
               THEN DecodeMembers(s, SkipWs(s, j + 1), SetMember(acc, key.val.v, r.val))
          ELSE DecodeFail

\* JSON.parse(s): the value, or the SyntaxError thrown
JsonDecode(s) ==
  LET r == DecodeValue(s, SkipWs(s, 1))
  IN IF r.pos # 0 /\ SkipWs(s, r.pos) = Len(s) + 1
     THEN Returned(r.val)
     ELSE Thrown(Err("SyntaxError", "Unexpected token in JSON", 0, <<>>))

\* the characters of the strings of a roadmap: braces, brackets, and the two
\* characters JSON.stringify escapes
StrAlphabet == {"{", "}", "[", "]", "\"", "\\", "x"}

Text_title == <<"t", "i", "t", "l", "e">>
Text_topics == <<"t", "o", "p", "i", "c", "s">>
Text_lessonObjective ==
  <<"l", "e", "s", "s", "o", "n", "O", "b", "j", "e", "c", "t", "i", "v", "e">>
Text_estimatedTime == <<"e", "s", "t", "i", "m", "a", "t", "e", "d", "T", "i", "m", "e">>

\* lines 151-162: a topic and a week of the format asked of the endpoint
Topic(x) ==
  Obj(<<Member(Text_title, Str(x)), Member(Text_lessonObjective, Str(x)),
        Member(Text_estimatedTime, Str(x))>>)
Week(x, topicCount) ==
  Obj(<<Member(Text_title, Str(x)),
        Member(Text_topics, Arr([i \in 1..topicCount |-> Topic(x)]))>>)

\* the roadmaps of up to MaxWeeks weeks of up to MaxTopics topics
WeekPlans ==
  {Arr([i \in 1..n |-> Week(x, topicCount)]) :
     n \in 0..MaxWeeks, topicCount \in 0..MaxTopics,
     x \in TextsUpTo(StrAlphabet, MaxStrLen)}

\* the users that may sign in, and what a profile fetch may end with: the
\* row, no row, an error of the store, the timeout of line 238
UserIds == 1..MaxUsers
AuthEventKinds == {"SIGNED_IN", "SIGNED_UP", "SIGNED_OUT"}
ProfileResults == {"data", "none", "error", "timeout"}

\* the runs of fetchLesson and the lessons they are started for
Runs == 1..MaxRuns
OpenedLessons == 1..MaxOpened

\* what generateLessonContent may return to fetchLesson: two lesson texts
GeneratedContents == {Obj(<<Member(Text_title, Str(<<c>>))>>) : c \in {"x", "y"}}

\* ------------------------------------------------------------ variables
VARIABLES
  \* SpecNormalizer
  normPc,          \* "input" | "cleaned"
  \* SpecFence: one inner text normalized bare and inside either fence
  inner,           \* the inner text
  fenceResults,    \* what cleanJsonResponse returned for the three forms
  \* SpecRoundTrip: a roadmap serialized, fenced, normalized and decoded
  roadmapWeeks,           \* the WeekPlan array
  parsedWeeks,          \* what decoding the normalized text gave
  \* shared by SpecNormalizer and Spec
  content,         \* the text handed to cleanJsonResponse
  cleanedContent,  \* what cleanJsonResponse returned
  \* Spec: one caller, one makeGeminiRequest call at a time
  op,              \* the facade operation invoked: questions | roadmap | lesson
  pc,              \* idle | fetching | readingText | readingJson | settled
  timer,           \* the call's timeoutId: unset | armed | cleared | fired
  aborted,         \* controller.signal.aborted
  status,          \* response.status, 0 before the response
  data,            \* what response.json() resolved with, absent before it did
  execResult,      \* how makeGeminiRequest settled
  outcome,         \* what the facade gave its caller
  requests,        \* network requests issued by the current call
  calls,           \* facade invocations made so far
  totalRequests,   \* network requests issued so far
  errorText,       \* what response.text() resolved with, absent before it did
  consoleError,    \* the console.error calls made since the call began, in order
  \* SpecProgress: the store, one LessonView session, the LessonsList screen
  lessonCompletions, \* table lesson_completions of the user, in insertion order
  userProgress,    \* the user_progress row of the roadmap
  testPc,          \* completeTest: idle | saved | read
  lessonId,        \* the lesson the LessonView shows, 0 when no test is running
  finalScore,      \* the score completeTest computed
  progressData,    \* the row completeTest selected
  scores,          \* history: the scores of the completions applied to the row
  lessons,         \* LessonsList state: the lesson rows fetched
  completions,     \* LessonsList state: the completion rows fetched
  unlocked,        \* LessonsList render: isLessonUnlocked of every position
  lessonScores,    \* LessonsList render: getLessonScore of every lesson
  lessonsCompleted, \* LessonsList render: isLessonCompleted of every lesson
  \* SpecRoadmap: the RoadmapView screen over the same store
  roadmap,         \* RoadmapView state: the weeks of the roadmap, absent when null
  roadmapLessons,  \* RoadmapView state: the lesson rows fetched
  roadmapCompletions, \* RoadmapView state: the completion rows fetched
  weekProgress,    \* RoadmapView render: getWeekProgress of every week
  overallProgress, \* RoadmapView render: getOverallProgress
  \* SpecLessonView: runs of fetchLesson over one localStorage
  runPc,           \* of every run: idle | selectingLesson | selectingAll | generating | done
  runLessonId,     \* of every run: the lessonId of its closure, 0 before it starts
  runContent,      \* of every run: what it passed to setLessonContent, absent if nothing
  lessonCache,     \* localStorage: of every lesson id the item lesson_<id>, absent if none
  generateCalls,   \* of every lesson id the calls of generateLessonContent made for it
  \* SpecAuth: the AuthProvider
  user,            \* state user: the id of the user, 0 for null
  profile,         \* state profile: the id of the user it belongs to, 0 for null
  loading,         \* state loading
  isNewUser,       \* state isNewUser
  authError,       \* state error: "none" for null, else the kind of message
  initPc,          \* initializeAuth: session | profile | done
  profileFetches,  \* the fetchProfile calls made, in order: user, caller, state
  authEvents,      \* the auth events delivered so far
  \* SpecCalls: makeGeminiRequest calls in flight at the same time
  callPc,          \* of every call: idle | fetching | readingText | readingJson | settled
  timeoutIds,      \* of every call: its timer, unset | armed | cleared | fired
  controllers,     \* of every call: controller.signal.aborted of its controller
  responses,       \* of every call: the status of its response, 0 before the response
  bodies,          \* of every call: what the body of its response resolved with
  callResults,     \* of every call: how it settled
  \* SpecOnboarding: the OnboardingFlow, the store, the alteration of RoadmapView
  step,            \* state step: 1 | 2 | 3
  goal,            \* state goal
  questions,       \* state questions
  currentQuestion, \* state currentQuestion, an index from 0
  answers,         \* state answers: the pairs of a question and its answer
  flowLoading,     \* state loading of the OnboardingFlow
  flowError,       \* state error of the OnboardingFlow
  handlers,        \* the handleGoalSubmit and handleGenerateRoadmap calls running
  navigated,       \* navigate('/dashboard') was called
  roadmapRows,     \* table roadmaps, each row with its lessons and user_progress rows
  alterPc,         \* handleAlterRoadmap: idle | generating | updateRoadmap | ...
  newRoadmapWeeks, \* handleAlterRoadmap: what generateRoadmap returned
  processing,      \* RoadmapView state processing
  \* SpecSessions: LessonView sessions of one user over one user_progress row
  sessionPc,       \* of every session, completeTest: idle | saved | read
  sessionScore,    \* of every session: the finalScore it computed
  sessionData,     \* of every session: the progressData it selected
  completionPercentage, \* Dashboard render: completionPercentage
  \* SpecAuthLive: the signIn and signUp calls of the AuthProvider
  signPc,          \* idle | signingIn | signingUp
  eventsAtSignIn,  \* the auth events that had been delivered when signIn was called
  signCalls,       \* the signIn and signUp calls made so far
  \* SpecNavigation: the routes to a lesson
  openLesson       \* the lessonId of the route the LessonView is mounted for, 0 if none

fenceVars == <<inner, fenceResults>>
roundTripVars == <<roadmapWeeks, parsedWeeks>>
normVars == <<normPc, content, cleanedContent, fenceVars, roundTripVars>>
execVars ==
  <<op, pc, timer, aborted, status, data, execResult, outcome, requests, calls,
    totalRequests, errorText, consoleError>>
listVars == <<lessons, completions, unlocked, lessonScores, lessonsCompleted>>
roadmapVars ==
  <<roadmap, roadmapLessons, roadmapCompletions, weekProgress, overallProgress>>
progressVars ==
  <<lessonCompletions, userProgress, testPc, lessonId, finalScore, progressData,
    scores, listVars, roadmapVars>>
lessonViewVars == <<runPc, runLessonId, runContent, lessonCache, generateCalls>>
authVars ==
  <<user, profile, loading, isNewUser, authError, initPc, profileFetches,
    authEvents>>
callVars == <<callPc, timeoutIds, controllers, responses, bodies, callResults>>
flowVars == <<step, goal, questions, currentQuestion, answers>>
alterVars == <<alterPc, newRoadmapWeeks, processing>>
onboardVars ==
  <<flowVars, flowLoading, flowError, handlers, navigated, roadmapRows, alterVars>>
sessionVars == <<sessionPc, sessionScore, sessionData, completionPercentage>>
signVars == <<signPc, eventsAtSignIn, signCalls>>
appVars == <<callVars, onboardVars, sessionVars, signVars, openLesson>>
\* what the navigation leaves alone
outsideNavigation ==
  <<normVars, execVars, progressVars, lessonViewVars, authVars, callVars, onboardVars,
    sessionVars, signVars>>
viewVars == <<lessonViewVars, authVars, appVars>>
\* what the calls of SpecCalls leave alone
outsideCalls ==
  <<normVars, execVars, progressVars, lessonViewVars, authVars, onboardVars,
    sessionVars, signVars, openLesson>>
\* what the onboarding and the alteration leave alone
outsideOnboarding ==
  <<normVars, execVars, progressVars, lessonViewVars, authVars, callVars,
    sessionVars, signVars, openLesson>>
\* what the sessions and the dashboard leave alone
outsideSessions ==
  <<normVars, execVars, lessonViewVars, authVars, callVars, onboardVars, signVars,
    openLesson, testPc,
    lessonId, finalScore, progressData, listVars, roadmapVars>>
\* what signIn and signUp leave alone
outsideSign ==
  <<normVars, execVars, progressVars, lessonViewVars, callVars, onboardVars,
    sessionVars, openLesson>>
vars == <<normVars, execVars, progressVars, viewVars>>

\* ------------------------------------------------- the endpoint's answers
\* An optional property is a sequence: <<>> when absent, <<v>> when present.
Absent == <<>>
Present(v) == <<v>>
IsAbsent(o) == o = <<>>
Get(o) == o[1]

\* characters of the text payloads of Spec
RespAlphabet == {"{", "}", "[", "]", "1", ",", "\"", ":", "x", " ", Backtick}
RespTexts == TextsUpTo(RespAlphabet, MaxRespLen)

Parts == {[text |-> Absent]} \cup {[text |-> Present(t)] : t \in RespTexts}
PartsLists == {<<>>} \cup {<<p>> : p \in Parts}
Contents == {[parts |-> Absent]} \cup {[parts |-> Present(l)] : l \in PartsLists}
Candidates == {[content |-> Absent]} \cup {[content |-> Present(c)] : c \in Contents}
CandidateLists == {<<>>} \cup {<<c>> : c \in Candidates}
\* the JSON objects response.json() may resolve with
Payloads ==
  {[candidates |-> Absent]} \cup {[candidates |-> Present(l)] : l \in CandidateLists}

\* response.status values: one ok, one not
Statuses == {200, 500}

\* the mutant of ResponseOk: every status passes for a success
ResponseOkAlways(st) == st >= 0

\* line 78: response.ok
ResponseOk(st) == st >= 200 /\ st <= 299

\* the bodies response.text() may resolve with
ErrorBodies == {<<>>, <<"x">>}

\* --------------------------------------------------------------- errors
TimeoutError == Err("Error", "Request timeout - please try again", 0, <<>>)
AbortError == Err("AbortError", "The user aborted a request.", 0, <<>>)
\* `API request failed: ${response.status} - ${errorText}`
TransportError(st, body) == Err("Error", "API request failed", st, body)
InvalidStructureError == Err("Error", "Invalid response structure from AI", 0, <<>>)
NotJsonError == Err("Error", "Invalid JSON response from AI", 0, <<>>)
ParseFailedError == Err("Error", "Failed to parse AI response as JSON", 0, <<>>)
\* reading a property of undefined
UndefinedTypeError == Err("TypeError", "Cannot read properties of undefined", 0, <<>>)
\* fetch rejecting for a network failure, response.json() for a malformed body
NetworkError == Err("TypeError", "Failed to fetch", 0, <<>>)
BodySyntaxError == Err("SyntaxError", "Unexpected token in JSON", 0, <<>>)

\* ---------------------------------------------------- makeGeminiRequest
\* line 85: !data.candidates || !data.candidates[0] || !data.candidates[0].content
ShapeInvalid(d) ==
  \/ IsAbsent(d.candidates)
  \/ Get(d.candidates) = <<>>
  \/ IsAbsent(Get(d.candidates)[1].content)

\* line 89: data.candidates[0].content.parts[0].text throws a TypeError when
\* parts is undefined or parts[0] is undefined
TextReadThrows(d) ==
  LET c == Get(Get(d.candidates)[1].content)
  IN IsAbsent(c.parts) \/ Get(c.parts) = <<>>

\* line 89: the text read, absent when parts[0] has no text property
TextOf(d) == Get(Get(Get(d.candidates)[1].content).parts)[1].text

\* the mutant of LooksLikeJson: only the empty text is refused
LooksLikeJsonNonEmpty(cleaned) == cleaned # <<>>

\* line 92, negated: the text is non-empty and starts with [ or {
LooksLikeJson(cleaned) ==
  cleaned # <<>> /\ (StartsWith(cleaned, <<"[">>) \/ StartsWith(cleaned, <<"{">>))

\* lines 96-102: JSON.parse, a decode error replaced by the parse error
ParseCleaned(cleaned) ==
  LET parsed == JsonParse(cleaned)
  IN IF parsed.kind = "value" THEN parsed ELSE Thrown(ParseFailedError)

\* a console.error call: its label, and the error or the text passed with it
LogEntry(label, error, text) == [label |-> label, error |-> error, text |-> text]

\* the mutant of ParseLog: the normalized text is not logged
ParseLogErrorOnly(cleaned) ==
  <<LogEntry("JSON Parse Error:", JsonParse(cleaned).error, <<>>)>>

\* lines 99-100: the decode error and the normalized text are logged
ParseLog(cleaned) ==
  <<LogEntry("JSON Parse Error:", JsonParse(cleaned).error, <<>>),
    LogEntry("Cleaned content:", NoError, cleaned)>>

\* lines 85-102: from the decoded payload to the value returned or the error
\* thrown inside the try block (content.trim() on an undefined text is a
\* TypeError at line 6)
DecodeResponse(d) ==
  IF ShapeInvalid(d) THEN Thrown(InvalidStructureError)
  ELSE IF TextReadThrows(d) THEN Thrown(UndefinedTypeError)
  ELSE IF IsAbsent(TextOf(d)) THEN Thrown(UndefinedTypeError)
  ELSE LET cleaned == cleanJsonResponse(Get(TextOf(d)))
       IN IF ~LooksLikeJson(cleaned) THEN Thrown(NotJsonError)
          ELSE ParseCleaned(cleaned)

\* the payload carries a text, so line 90 runs cleanJsonResponse on it
HasText(d) == ~ShapeInvalid(d) /\ ~TextReadThrows(d) /\ ~IsAbsent(TextOf(d))

\* the mutant of CatchExecutorError: the abort is rethrown as it came
CatchExecutorErrorRethrow(e) == e

\* lines 96-102: what makeGeminiRequest logs while it decodes the payload d
DecodeLog(d) ==
  IF DecodeResponse(d) = Thrown(ParseFailedError)
  THEN ParseLog(cleanJsonResponse(Get(TextOf(d))))
  ELSE <<>>

\* lines 103-109: an AbortError becomes the timeout error, any other error
\* is rethrown unchanged
CatchExecutorError(e) == IF e.name = "AbortError" THEN TimeoutError ELSE e

\* how makeGeminiRequest settles when its try block yields r
ExecutorSettles(r) ==
  IF r.kind = "error" THEN Thrown(CatchExecutorError(r.error)) ELSE r

\* the mutant of ClearTimeout: the timer is left as it is
ClearTimeoutLeaves(t) == t

\* clearTimeout(timeoutId), lines 76 and 104
ClearTimeout(t) == IF t = "armed" THEN "cleared" ELSE t

\* --------------------------------------------------------------- facade
Ops == {"questions", "roadmap", "lesson"}

\* lines 134, 179, 219
GenerationFailed(o) ==
  Err("Error",
      IF o = "questions" THEN "Failed to generate questions - please try again"
      ELSE IF o = "roadmap" THEN "Failed to generate roadmap - please try again"
      ELSE "Failed to generate lesson content - please try again",
      0, <<>>)

\* the mutant of FacadeCatch: the executor's error reaches the caller
FacadeCatchRethrow(o, e) == e

\* the catch blocks of the three operations, lines 132-135, 177-180, 217-220
FacadeCatch(o, e) == GenerationFailed(o)

EmptyArray == [type |-> "array", json |-> <<"[", "]">>]

\* Array.isArray
IsArray(v) == v.type = "array"

\* lines 112-136
generateQuestions(r) ==
  IF r.kind = "error" THEN Thrown(FacadeCatch("questions", r.error))
  ELSE Returned(IF IsArray(r.value) THEN r.value ELSE EmptyArray)

\* lines 138-181
generateRoadmap(r) ==
  IF r.kind = "error" THEN Thrown(FacadeCatch("roadmap", r.error))
  ELSE IF ~IsArray(r.value)
       THEN Thrown(FacadeCatch("roadmap",
                Err("Error", "Invalid roadmap structure - not an array", 0, <<>>)))
       ELSE Returned(r.value)

\* lines 183-221
generateLessonContent(r) ==
  IF r.kind = "error" THEN Thrown(FacadeCatch("lesson", r.error))
  ELSE Returned(r.value)

\* lines 133, 178, 218: what the catch block of operation o logs when
\* makeGeminiRequest settled as r; generateLessonContent logs a fixed text
FacadeLog(o, r) ==
  IF o = "questions"
  THEN IF r.kind = "error"
       THEN <<LogEntry("Error generating questions:", r.error, <<>>)>>
       ELSE <<>>
  ELSE IF o = "roadmap"
  THEN IF r.kind = "error"
       THEN <<LogEntry("Error generating roadmap:", r.error, <<>>)>>
       ELSE IF ~IsArray(r.value)
            THEN <<LogEntry("Error generating roadmap:",
                            Err("Error", "Invalid roadmap structure - not an array", 0, <<>>),
                            <<>>)>>
            ELSE <<>>
  ELSE IF r.kind = "error"
       THEN <<LogEntry("Error generating lesson content - please try again", NoError, <<>>)>>
       ELSE <<>>

\* what the caller of operation o receives when makeGeminiRequest settled as r
Facade(o, r) ==
  IF o = "questions" THEN generateQuestions(r)
  ELSE IF o = "roadmap" THEN generateRoadmap(r)
  ELSE generateLessonContent(r)

\* ------------------------------------------------------------- progress
\* average_accuracy is a JavaScript number; the model keeps it as an exact
\* fraction in lowest terms, so that no rounding is introduced by the model.
RECURSIVE Gcd(_, _)
Gcd(a, b) == IF b = 0 THEN a ELSE Gcd(b, a % b)

Fraction(n, d) ==
  LET g == Gcd(n, d)
  IN IF n = 0 THEN [num |-> 0, den |-> 1] ELSE [num |-> n \div g, den |-> d \div g]

Zero == Fraction(0, 1)

\* Math.round of num/den for num >= 0, den > 0: halves round up
MathRound(num, den) == (2 * num + den) \div (2 * den)

\* LessonView.tsx line 123: Math.round((correctAnswers / questions.length) * 100)
FinalScore(correctAnswers, questionCount) == MathRound(100 * correctAnswers, questionCount)

\* LessonView.tsx lines 135 and 159: the time credited for one test
TimePerTest == 30

\* line 151: progressData.average_accuracy || 0
OrZero(x) == IF x.num = 0 THEN Zero ELSE x

\* the mutant of NewAverageAccuracy: the average is rounded before it is stored
NewAverageAccuracyRounded(oldAverageAccuracy, oldCompletedLessons, score) ==
  Fraction(MathRound(oldAverageAccuracy.num * oldCompletedLessons
                       + score * oldAverageAccuracy.den,
                     oldAverageAccuracy.den * (oldCompletedLessons + 1)), 1)

\* line 153: (oldAverageAccuracy * oldCompletedLessons + finalScore) / newCompletedLessons
NewAverageAccuracy(oldAverageAccuracy, oldCompletedLessons, score) ==
  Fraction(oldAverageAccuracy.num * oldCompletedLessons + score * oldAverageAccuracy.den,
           oldAverageAccuracy.den * (oldCompletedLessons + 1))

\* the mutant of ProgressUpdate: the count is not fed back into the average
ProgressUpdateUnweighted(row, score) ==
  [row EXCEPT !.completed_lessons = row.completed_lessons + 1,
              !.total_time_spent = row.total_time_spent + TimePerTest,
              !.average_accuracy =
                 Fraction(OrZero(row.average_accuracy).num + score * OrZero(row.average_accuracy).den,
                          OrZero(row.average_accuracy).den * 2)]

\* lines 148-162: the row after the update computed from the selected row
ProgressUpdate(row, score) ==
  [row EXCEPT !.completed_lessons = row.completed_lessons + 1,
              !.total_time_spent = row.total_time_spent + TimePerTest,
              !.average_accuracy =
                 NewAverageAccuracy(OrZero(row.average_accuracy),
                                    row.completed_lessons, score)]

\* the lesson rows of the roadmap, ordered by week_number and order_index
LessonRows ==
  [i \in 1..NumLessons |->
     [id |-> i, week_number |-> ((i - 1) \div TopicsPerWeek) + 1]]

\* OnboardingFlow lines 74-86 read backwards: the weeks of the stored roadmap,
\* each with the number of its topics; the last week has no topic
NumWeeks == ((NumLessons + TopicsPerWeek - 1) \div TopicsPerWeek) + 1
RoadmapWeeks ==
  [w \in 1..NumWeeks |->
     [topics |-> Cardinality({i \in 1..NumLessons : LessonRows[i].week_number = w})]]

\* OnboardingFlow lines 95-106: the user_progress row as first inserted
InitialProgress ==
  [total_lessons |-> Len(LessonRows), completed_lessons |-> 0, total_time_spent |-> 0,
   average_accuracy |-> Zero, current_week |-> 1]

\* the mutant of isLessonCompleted: only a row with a positive score counts
isLessonCompletedPassing(id, comps) ==
  \E k \in DOMAIN comps : comps[k].lesson_id = id /\ comps[k].score > 0

\* LessonsList.tsx lines 81-83, RoadmapView.tsx lines 78-80
isLessonCompleted(id, comps) == \E k \in DOMAIN comps : comps[k].lesson_id = id

\* LessonsList.tsx line 86: completions.find(c => c.lesson_id === lessonId),
\* the first matching row in the order fetched, absent when none matches
FindCompletion(id, comps) ==
  IF \E k \in DOMAIN comps : comps[k].lesson_id = id
  THEN Present(comps[CHOOSE k \in DOMAIN comps :
                       /\ comps[k].lesson_id = id
                       /\ \A j \in 1..(k - 1) : comps[j].lesson_id # id])
  ELSE Absent

\* LessonsList.tsx lines 85-88: completion?.score || 0
getLessonScore(id, comps) ==
  IF IsAbsent(FindCompletion(id, comps)) THEN 0
  ELSE IF Get(FindCompletion(id, comps)).score = 0 THEN 0
  ELSE Get(FindCompletion(id, comps)).score

\* the mutant of getWeekProgress: completed lessons of every week are counted
getWeekProgressAllWeeks(week, rows, comps) ==
  LET weekLessons == SelectSeq(rows, LAMBDA l : l.week_number = week.weekNumber)
      completedLessons == SelectSeq(rows, LAMBDA l : isLessonCompleted(l.id, comps))
  IN IF Len(weekLessons) > 0
     THEN MathRound(Len(completedLessons) * 100, Len(weekLessons))
     ELSE 0

\* RoadmapView.tsx lines 82-86; the quotient is below 2^53 and is kept exact
getWeekProgress(week, rows, comps) ==
  LET weekLessons == SelectSeq(rows, LAMBDA l : l.week_number = week.weekNumber)
      completedLessons == SelectSeq(weekLessons, LAMBDA l : isLessonCompleted(l.id, comps))
  IN IF Len(weekLessons) > 0
     THEN MathRound(Len(completedLessons) * 100, Len(weekLessons))
     ELSE 0

\* RoadmapView.tsx lines 88-92
getOverallProgress(rows, comps) ==
  IF Len(rows) = 0 THEN 0
  ELSE MathRound(Len(SelectSeq(rows, LAMBDA l : isLessonCompleted(l.id, comps))) * 100,
                 Len(rows))

\* the mutant of isLessonUnlocked: any completed earlier lesson unlocks
isLessonUnlockedByAnyEarlier(lessonIndex, rows, comps) ==
  IF lessonIndex = 0 THEN TRUE
  ELSE \E j \in 0..(lessonIndex - 1) : isLessonCompleted(rows[j + 1].id, comps)

\* LessonsList.tsx lines 90-93, lessonIndex counted from 0
isLessonUnlocked(lessonIndex, rows, comps) ==
  IF lessonIndex = 0 THEN TRUE
  ELSE isLessonCompleted(rows[(lessonIndex - 1) + 1].id, comps)

\* ---------------------------------------------------------- idle states
FenceIdle == inner = <<>> /\ fenceResults = Absent

RoundTripIdle == roadmapWeeks = Arr(<<>>) /\ parsedWeeks = Pending

NormIdle == normPc = "input" /\ content = <<>> /\ cleanedContent = <<>> /\ FenceIdle
            /\ RoundTripIdle

ExecIdle ==
  /\ op = "none" /\ pc = "idle" /\ timer = "unset" /\ aborted = FALSE
  /\ status = 0 /\ data = Absent /\ execResult = Pending /\ outcome = Pending
  /\ requests = 0 /\ calls = 0 /\ totalRequests = 0
  /\ errorText = Absent /\ consoleError = <<>>

ProgressIdle ==
  /\ lessonCompletions = <<>> /\ userProgress = InitialProgress
  /\ testPc = "idle" /\ lessonId = 0 /\ finalScore = 0
  /\ progressData = InitialProgress /\ scores = <<>>
  /\ lessons = <<>> /\ completions = <<>> /\ unlocked = <<>>
  /\ lessonScores = <<>> /\ lessonsCompleted = <<>>
  /\ roadmap = Absent /\ roadmapLessons = <<>> /\ roadmapCompletions = <<>>
  /\ weekProgress = <<>> /\ overallProgress = 0

LessonViewIdle ==
  /\ runPc = [r \in Runs |-> "idle"] /\ runLessonId = [r \in Runs |-> 0]
  /\ runContent = [r \in Runs |-> Absent]
  /\ lessonCache = [id \in OpenedLessons |-> Absent]
  /\ generateCalls = [id \in OpenedLessons |-> 0]

AuthIdle ==
  /\ user = 0 /\ profile = 0 /\ loading = TRUE /\ isNewUser = FALSE
  /\ authError = "none" /\ initPc = "session"
  /\ profileFetches = <<>> /\ authEvents = 0

\* the calls of SpecCalls, none started
Calls == 1..MaxInFlight
NoBody == [kind |-> "none", text |-> <<>>, data |-> [candidates |-> Absent]]

CallsIdle ==
  /\ callPc = [i \in Calls |-> "idle"] /\ timeoutIds = [i \in Calls |-> "unset"]
  /\ controllers = [i \in Calls |-> FALSE] /\ responses = [i \in Calls |-> 0]
  /\ bodies = [i \in Calls |-> NoBody] /\ callResults = [i \in Calls |-> Pending]

\* part_003 lines 9-15, part_001 lines 29-33: the states after mounting
FlowIdle ==
  /\ step = 1 /\ goal = "" /\ questions = <<>> /\ currentQuestion = 0
  /\ answers = {}

OnboardingIdle ==
  /\ FlowIdle /\ flowLoading = FALSE /\ flowError = "" /\ handlers = <<>>
  /\ navigated = FALSE /\ roadmapRows = <<>>
  /\ alterPc = "idle" /\ newRoadmapWeeks = <<>> /\ processing = FALSE

\* the sessions of SpecSessions, no test finished, the dashboard not rendered
Sessions == 1..MaxSessions

SessionsIdle ==
  /\ sessionPc = [s \in Sessions |-> "idle"] /\ sessionScore = [s \in Sessions |-> 0]
  /\ sessionData = [s \in Sessions |-> InitialProgress]
  /\ completionPercentage = 0

\* the application flows other than the lesson view and the provider
AppIdle ==
  /\ CallsIdle /\ OnboardingIdle /\ SessionsIdle
  /\ signPc = "idle" /\ eventsAtSignIn = 0 /\ signCalls = 0
  /\ openLesson = 0

ViewIdle == LessonViewIdle /\ AuthIdle /\ AppIdle

\* ------------------------------------------------------- SpecNormalizer
InitNormalizer ==
  /\ normPc = "input" /\ content \in NormInputs /\ cleanedContent = <<>>
  /\ FenceIdle /\ RoundTripIdle /\ ExecIdle /\ ProgressIdle /\ ViewIdle

Normalize ==
  /\ normPc = "input"
  /\ cleanedContent' = cleanJsonResponse(content)
  /\ normPc' = "cleaned"
  /\ UNCHANGED <<content, fenceVars, roundTripVars, execVars, progressVars, viewVars>>

NextNormalizer == Normalize

SpecNormalizer == InitNormalizer /\ [][NextNormalizer]_vars

\* ------------------------------------------------------------ SpecFence
\* cleanJsonResponse applied to one inner text bare, inside a plain fence and
\* inside a fence tagged json
InitFence ==
  /\ inner \in TextsUpTo(FenceAlphabet, MaxLen) /\ fenceResults = Absent
  /\ normPc = "input" /\ content = <<>> /\ cleanedContent = <<>>
  /\ RoundTripIdle /\ ExecIdle /\ ProgressIdle /\ ViewIdle

NormalizeWrapped ==
  /\ IsAbsent(fenceResults)
  /\ fenceResults' =
       Present([bare |-> cleanJsonResponse(inner),
                fence |-> cleanJsonResponse(FenceWrap(Fence, inner)),
                json |-> cleanJsonResponse(FenceWrap(FenceJson, inner))])
  /\ UNCHANGED <<normPc, content, cleanedContent, inner, roundTripVars, execVars,
                 progressVars, viewVars>>

NextFence == NormalizeWrapped

SpecFence == InitFence /\ [][NextFence]_vars

\* -------------------------------------------------------- SpecRoundTrip
\* generateRoadmap's answer as the endpoint writes it and makeGeminiRequest
\* reads it: the array serialized, put inside a fence, normalized (line 90),
\* checked (lines 92-94) and decoded (lines 96-102)
InitRoundTrip ==
  /\ roadmapWeeks \in WeekPlans /\ parsedWeeks = Pending
  /\ normPc = "input" /\ content = <<>> /\ cleanedContent = <<>>
  /\ FenceIdle /\ ExecIdle /\ ProgressIdle /\ ViewIdle

DecodeCleaned(cleaned) ==
  IF ~LooksLikeJson(cleaned) THEN Thrown(NotJsonError)
  ELSE IF JsonDecode(cleaned).kind = "value" THEN JsonDecode(cleaned)
  ELSE Thrown(ParseFailedError)

RoundTrip(marker) ==
  /\ parsedWeeks = Pending
  /\ content' = FenceWrap(marker, Stringify(roadmapWeeks))
  /\ cleanedContent' = cleanJsonResponse(FenceWrap(marker, Stringify(roadmapWeeks)))
  /\ parsedWeeks' = DecodeCleaned(cleanJsonResponse(FenceWrap(marker, Stringify(roadmapWeeks))))
  /\ UNCHANGED <<normPc, fenceVars, roadmapWeeks, execVars, progressVars, viewVars>>

NextRoundTrip == \E marker \in {Fence, FenceJson} : RoundTrip(marker)

SpecRoundTrip == InitRoundTrip /\ [][NextRoundTrip]_vars

\* ----------------------------------------------------------------- Spec
Init == NormIdle /\ ExecIdle /\ ProgressIdle /\ ViewIdle

\* the mutant of Settle: a failed request is sent once more
SettleRetrying(r) ==
  IF r.kind = "error" /\ requests < 2
  THEN /\ pc' = "fetching" /\ timer' = "armed" /\ aborted' = FALSE
       /\ requests' = requests + 1 /\ totalRequests' = totalRequests + 1
       /\ UNCHANGED <<execResult, outcome>>
  ELSE /\ pc' = "settled"
       /\ timer' = ClearTimeout(timer)
       /\ execResult' = ExecutorSettles(r)
       /\ outcome' = Facade(op, ExecutorSettles(r))
       /\ UNCHANGED <<aborted, requests, totalRequests>>

\* makeGeminiRequest leaves its try block with r (lines 97-109) and the facade
\* operation that awaited it returns or throws; no request is sent again
Settle(r) ==
  /\ pc' = "settled"
  /\ timer' = ClearTimeout(timer)
  /\ execResult' = ExecutorSettles(r)
  /\ outcome' = Facade(op, ExecutorSettles(r))
  /\ UNCHANGED <<aborted, requests, totalRequests>>

\* the console.error calls of the settling call: those of makeGeminiRequest,
\* then that of the catch block of the facade operation
LogSettle(entries, r) ==
  consoleError' = consoleError \o entries \o FacadeLog(op, ExecutorSettles(r))

\* the caller invokes a facade operation: lines 56-74, a fresh controller, the
\* timer armed, the request sent
Invoke(o) ==
  /\ pc \in {"idle", "settled"}
  /\ calls < MaxCalls
  /\ op' = o /\ calls' = calls + 1
  /\ aborted' = FALSE /\ timer' = "armed"
  /\ requests' = 1 /\ totalRequests' = totalRequests + 1
  /\ pc' = "fetching"
  /\ status' = 0 /\ data' = Absent /\ content' = <<>> /\ cleanedContent' = <<>>
  /\ execResult' = Pending /\ outcome' = Pending
  /\ errorText' = Absent /\ consoleError' = <<>>
  /\ UNCHANGED <<normPc, fenceVars, roundTripVars, progressVars, viewVars>>

\* line 57: the timer fires and aborts the controller
TimerFires ==
  /\ timer = "armed"
  /\ timer' = "fired" /\ aborted' = TRUE
  /\ UNCHANGED <<normVars, op, pc, status, data, execResult, outcome, requests,
                 calls, totalRequests, errorText, consoleError, progressVars, viewVars>>

\* fetch rejects with an AbortError because the signal is aborted
FetchAborted ==
  /\ pc = "fetching" /\ aborted
  /\ Settle(Thrown(AbortError))
  /\ LogSettle(<<>>, Thrown(AbortError))
  /\ UNCHANGED <<normVars, op, status, data, calls, errorText, progressVars, viewVars>>

\* fetch rejects because the network failed
FetchFails ==
  /\ pc = "fetching" /\ ~aborted
  /\ Settle(Thrown(NetworkError))
  /\ LogSettle(<<>>, Thrown(NetworkError))
  /\ UNCHANGED <<normVars, op, status, data, calls, errorText, progressVars, viewVars>>

\* lines 60-81: fetch resolves with the response head; the timer is cleared
\* and the body is read as text or as JSON
ResponseArrives(st) ==
  /\ pc = "fetching" /\ ~aborted
  /\ status' = st
  /\ timer' = ClearTimeout(timer)
  /\ pc' = IF ResponseOk(st) THEN "readingJson" ELSE "readingText"
  /\ UNCHANGED <<normVars, op, aborted, data, execResult, outcome, requests, calls,
                 totalRequests, errorText, consoleError, progressVars, viewVars>>

\* lines 79-80: the error body is read and the transport error thrown
ErrorBodyRead(body) ==
  /\ pc = "readingText"
  /\ errorText' = Present(body)
  /\ Settle(Thrown(TransportError(status, body)))
  /\ LogSettle(<<>>, Thrown(TransportError(status, body)))
  /\ UNCHANGED <<normVars, op, status, data, calls, progressVars, viewVars>>

\* line 83: response.json() rejects, the body is no JSON
JsonBodyRejected ==
  /\ pc = "readingJson"
  /\ Settle(Thrown(BodySyntaxError))
  /\ LogSettle(<<>>, Thrown(BodySyntaxError))
  /\ UNCHANGED <<normVars, op, status, data, calls, errorText, progressVars, viewVars>>

\* lines 83-102: response.json() resolves with d and the payload is decoded
JsonBodyRead(d) ==
  /\ pc = "readingJson"
  /\ data' = Present(d)
  /\ content' = IF HasText(d) THEN Get(TextOf(d)) ELSE <<>>
  /\ cleanedContent' = IF HasText(d) THEN cleanJsonResponse(Get(TextOf(d))) ELSE <<>>
  /\ Settle(DecodeResponse(d))
  /\ LogSettle(DecodeLog(d), DecodeResponse(d))
  /\ UNCHANGED <<normPc, fenceVars, roundTripVars, op, status, calls, errorText,
                 progressVars, viewVars>>

Next ==
  \/ \E o \in Ops : Invoke(o)
  \/ TimerFires
  \/ FetchAborted
  \/ FetchFails
  \/ \E st \in Statuses : ResponseArrives(st)
  \/ \E body \in ErrorBodies : ErrorBodyRead(body)
  \/ JsonBodyRejected
  \/ \E d \in Payloads : JsonBodyRead(d)

Spec == Init /\ [][Next]_vars

\* The scheduling of one call. An armed timer fires (setTimeout, line 57),
\* and a fetch whose signal is aborted rejects: the runtime does both by
\* itself. Nothing obliges the endpoint to answer, to send a head or to
\* finish a body, so the steps that stand for its answers carry no fairness.
SpecLive ==
  Init /\ [][Next]_vars /\ WF_vars(TimerFires) /\ WF_vars(FetchAborted)

\* ------------------------------------------------------------ SpecCalls
\* Several makeGeminiRequest calls in flight at once. controller and
\* timeoutId are constants of the function body (lines 56-57), so every call
\* has its own; the callback of a timer closes over the controller of its
\* call.
InitCalls == NormIdle /\ ExecIdle /\ ProgressIdle /\ ViewIdle

\* the payloads the endpoint answers the calls with: those without a text,
\* one whose text decodes and one whose text does not
CallPayloads ==
  {d \in Payloads : HasText(d) => Get(TextOf(d)) \in {<<"[", "]">>, <<"x">>}}

\* the mutant of AbortedBy: one controller shared by the calls
AbortedByShared(i, j) == TRUE

\* line 57: () => controller.abort() aborts the controller of the call that
\* armed the timer
AbortedBy(i, j) == i = j

\* call i leaves its try block with r, lines 97-109
SettleCall(i, r) ==
  /\ callPc' = [callPc EXCEPT ![i] = "settled"]
  /\ timeoutIds' = [timeoutIds EXCEPT ![i] = ClearTimeout(@)]
  /\ callResults' = [callResults EXCEPT ![i] = ExecutorSettles(r)]

\* lines 56-74: a fresh controller, the timer armed, the request sent
StartCall(i) ==
  /\ callPc[i] = "idle"
  /\ callPc' = [callPc EXCEPT ![i] = "fetching"]
  /\ controllers' = [controllers EXCEPT ![i] = FALSE]
  /\ timeoutIds' = [timeoutIds EXCEPT ![i] = "armed"]
  /\ UNCHANGED <<outsideCalls, responses, bodies, callResults>>

\* line 57: the timer of call i fires
CallTimerFires(i) ==
  /\ timeoutIds[i] = "armed"
  /\ timeoutIds' = [timeoutIds EXCEPT ![i] = "fired"]
  /\ controllers' = [j \in Calls |-> controllers[j] \/ AbortedBy(i, j)]
  /\ UNCHANGED <<outsideCalls, callPc, responses, bodies, callResults>>

\* the fetch of call i rejects with an AbortError, its signal is aborted
CallFetchAborted(i) ==
  /\ callPc[i] = "fetching" /\ controllers[i]
  /\ SettleCall(i, Thrown(AbortError))
  /\ UNCHANGED <<outsideCalls, controllers, responses, bodies>>

\* the fetch of call i rejects because the network failed
CallFetchFails(i) ==
  /\ callPc[i] = "fetching" /\ ~controllers[i]
  /\ SettleCall(i, Thrown(NetworkError))
  /\ UNCHANGED <<outsideCalls, controllers, responses, bodies>>

\* lines 60-81: the fetch of call i resolves with the response head
CallResponseArrives(i, st) ==
  /\ callPc[i] = "fetching" /\ ~controllers[i]
  /\ responses' = [responses EXCEPT ![i] = st]
  /\ timeoutIds' = [timeoutIds EXCEPT ![i] = ClearTimeout(@)]
  /\ callPc' = [callPc EXCEPT ![i] = IF ResponseOk(st) THEN "readingJson" ELSE "readingText"]
  /\ UNCHANGED <<outsideCalls, controllers, bodies, callResults>>

\* lines 79-80
CallErrorBodyRead(i, body) ==
  /\ callPc[i] = "readingText"
  /\ bodies' = [bodies EXCEPT ![i] = [NoBody EXCEPT !.kind = "text", !.text = body]]
  /\ SettleCall(i, Thrown(TransportError(responses[i], body)))
  /\ UNCHANGED <<outsideCalls, controllers, responses>>

\* line 83: response.json() rejects
CallJsonBodyRejected(i) ==
  /\ callPc[i] = "readingJson"
  /\ bodies' = [bodies EXCEPT ![i] = [NoBody EXCEPT !.kind = "rejected"]]
  /\ SettleCall(i, Thrown(BodySyntaxError))
  /\ UNCHANGED <<outsideCalls, controllers, responses>>

\* lines 83-102: response.json() resolves with d and the payload is decoded
CallJsonBodyRead(i, d) ==
  /\ callPc[i] = "readingJson"
  /\ bodies' = [bodies EXCEPT ![i] = [NoBody EXCEPT !.kind = "json", !.data = d]]
  /\ SettleCall(i, DecodeResponse(d))
  /\ UNCHANGED <<outsideCalls, controllers, responses>>

NextCalls ==
  \E i \in Calls :
    \/ StartCall(i)
    \/ CallTimerFires(i)
    \/ CallFetchAborted(i)
    \/ CallFetchFails(i)
    \/ \E st \in Statuses : CallResponseArrives(i, st)
    \/ \E body \in ErrorBodies : CallErrorBodyRead(i, body)
    \/ CallJsonBodyRejected(i)
    \/ \E d \in CallPayloads : CallJsonBodyRead(i, d)

SpecCalls == InitCalls /\ [][NextCalls]_vars

\* ------------------------------------------------------- SpecOnboarding
\* The OnboardingFlow of part_003, the rows its handleGenerateRoadmap stores,
\* and handleAlterRoadmap of the RoadmapView (part_001) over the same rows.
InitOnboarding == NormIdle /\ ExecIdle /\ ProgressIdle /\ ViewIdle

\* the texts of the goal field
Goals == {"", "g"}

\* a question as the endpoint sends it; generateQuestions checks no element,
\* so an element may lack its question and its options
Question(q) == [question |-> q, options |-> <<"a", "b">>]
BareQuestion == [question |-> "", options |-> <<>>]

\* the arrays generateQuestions returns (part_000 lines 128-131): the array
\* the endpoint sent, [] for any other value
QuestionLists ==
  {<<>>, <<Question("q1")>>, <<Question("q1"), Question("q2")>>, <<BareQuestion>>}

\* a week as the endpoint sends it; generateRoadmap checks no element, so a
\* week may lack its topics
WeekOf(topics) == [topics |-> Present(topics)]
BareWeek == [topics |-> Absent]

\* the arrays generateRoadmap returns
GeneratedRoadmaps ==
  {<<>>, <<WeekOf(<<"a">>)>>, <<WeekOf(<<"a", "b">>), WeekOf(<<"c">>)>>, <<BareWeek>>}

GoalFailed == "Failed to generate questions. Please try again."
RoadmapFailed == "Failed to generate roadmap. Please try again."

\* week.topics.forEach throws a TypeError for a week without topics
TopicsMissing(roadmapData) == \E w \in DOMAIN roadmapData : IsAbsent(roadmapData[w].topics)

\* part_003 lines 73-86, part_001 lines 148-161: the lesson rows of the weeks
\* from week w on
RECURSIVE LessonsFrom(_, _)
LessonsFrom(roadmapData, w) ==
  IF w > Len(roadmapData) THEN <<>>
  ELSE LET topics == Get(roadmapData[w].topics)
       IN [t \in 1..Len(topics) |->
             [week_number |-> w, title |-> topics[t], order_index |-> t - 1]]
          \o LessonsFrom(roadmapData, w + 1)

\* a running handler: where it is suspended, its roadmapData, the index of
\* the roadmap row it inserted
Handler(at, roadmapData, id) == [pc |-> at, roadmapData |-> roadmapData, roadmapId |-> id]

RemoveAt(seq, i) == SubSeq(seq, 1, i - 1) \o SubSeq(seq, i + 1, Len(seq))

\* the mutant of SubmitDisabled: the button stays enabled while loading
SubmitDisabledEmptyGoal == goal = ""

\* part_003 line 183: disabled={!goal.trim() || loading}
SubmitDisabled == goal = "" \/ flowLoading

\* part_003 line 167: the user edits the goal
SetGoal(g) ==
  /\ step = 1 /\ ~navigated
  /\ goal' = g
  /\ UNCHANGED <<outsideOnboarding, step, questions, currentQuestion, answers,
                 flowLoading, flowError, handlers, navigated, roadmapRows, alterVars>>

\* part_003 lines 20-26: Continue is clicked, generateQuestions is called
handleGoalSubmit ==
  /\ step = 1 /\ ~navigated /\ ~SubmitDisabled
  /\ goal # ""
  /\ flowLoading' = TRUE /\ flowError' = ""
  /\ handlers' = Append(handlers, Handler("questions", <<>>, 0))
  /\ UNCHANGED <<outsideOnboarding, flowVars, navigated, roadmapRows, alterVars>>

\* part_003 lines 26-28, 32-34: generateQuestions returned qs
QuestionsReturned(i, qs) ==
  /\ handlers[i].pc = "questions"
  /\ questions' = qs /\ step' = 2
  /\ flowLoading' = FALSE
  /\ handlers' = RemoveAt(handlers, i)
  /\ UNCHANGED <<outsideOnboarding, goal, currentQuestion, answers, flowError,
                 navigated, roadmapRows, alterVars>>

\* a handler leaves through its catch and finally blocks, part_003 lines
\* 29-34 and 113-117
HandlerFails(i, message) ==
  /\ flowError' = message /\ flowLoading' = FALSE
  /\ handlers' = RemoveAt(handlers, i)

\* part_003 lines 29-34: generateQuestions threw
QuestionsFailed(i) ==
  /\ handlers[i].pc = "questions"
  /\ HandlerFails(i, GoalFailed)
  /\ UNCHANGED <<outsideOnboarding, flowVars, navigated, roadmapRows, alterVars>>

\* part_003 lines 199, 215-224: the option buttons that are rendered
OptionsShown ==
  IF step = 2 /\ Len(questions) > 0 /\ currentQuestion + 1 \in DOMAIN questions
  THEN {questions[currentQuestion + 1].options[k] :
          k \in DOMAIN questions[currentQuestion + 1].options}
  ELSE {}

\* part_003 lines 37-49
handleAnswerSelect(answer) ==
  /\ ~navigated /\ answer \in OptionsShown
  /\ LET currentQ == questions[currentQuestion + 1]
     IN answers' = {a \in answers : a[1] # currentQ.question}
                     \cup {<<currentQ.question, answer>>}
  /\ IF currentQuestion < Len(questions) - 1
     THEN currentQuestion' = currentQuestion + 1 /\ UNCHANGED step
     ELSE step' = 3 /\ UNCHANGED currentQuestion
  /\ UNCHANGED <<outsideOnboarding, goal, questions, flowLoading, flowError,
                 handlers, navigated, roadmapRows, alterVars>>

\* part_003 lines 51-56, 290-292: Generate My Roadmap is clicked
handleGenerateRoadmap ==
  /\ step = 3 /\ ~navigated /\ ~flowLoading
  /\ flowLoading' = TRUE /\ flowError' = ""
  /\ handlers' = Append(handlers, Handler("roadmap", <<>>, 0))
  /\ UNCHANGED <<outsideOnboarding, flowVars, navigated, roadmapRows, alterVars>>

\* part_003 lines 56-70: generateRoadmap returned roadmapData, the roadmap row is sent
RoadmapReturned(i, roadmapData) ==
  /\ handlers[i].pc = "roadmap"
  /\ handlers' = [handlers EXCEPT ![i] = Handler("insertRoadmap", roadmapData, 0)]
  /\ UNCHANGED <<outsideOnboarding, flowVars, flowLoading, flowError, navigated,
                 roadmapRows, alterVars>>

\* part_003 lines 113-117: generateRoadmap threw
RoadmapGenerationFailed(i) ==
  /\ handlers[i].pc = "roadmap"
  /\ HandlerFails(i, RoadmapFailed)
  /\ UNCHANGED <<outsideOnboarding, flowVars, navigated, roadmapRows, alterVars>>

\* part_003 lines 58-92: the roadmap row is inserted; the lesson rows are
\* built and sent, or building them throws
RoadmapInserted(i) ==
  /\ handlers[i].pc = "insertRoadmap"
  /\ Len(roadmapRows) < MaxRoadmaps
  /\ roadmapRows' =
       Append(roadmapRows,
              [weeks |-> handlers[i].roadmapData, lessons |-> <<>>, progress |-> Absent])
  /\ IF TopicsMissing(handlers[i].roadmapData)
     THEN HandlerFails(i, RoadmapFailed)
     ELSE /\ handlers' = [handlers EXCEPT ![i] =
                 Handler("insertLessons", @.roadmapData, Len(roadmapRows) + 1)]
          /\ UNCHANGED <<flowLoading, flowError>>
  /\ UNCHANGED <<outsideOnboarding, flowVars, navigated, alterVars>>

\* part_003 lines 88-95: the lesson rows are inserted
LessonsInserted(i) ==
  /\ handlers[i].pc = "insertLessons"
  /\ roadmapRows' = [roadmapRows EXCEPT ![handlers[i].roadmapId].lessons =
                       LessonsFrom(handlers[i].roadmapData, 1)]
  /\ handlers' = [handlers EXCEPT ![i].pc = "insertProgress"]
  /\ UNCHANGED <<outsideOnboarding, flowVars, flowLoading, flowError, navigated,
                 alterVars>>

\* part_003 lines 95-111: the user_progress row is inserted
ProgressInserted(i) ==
  /\ handlers[i].pc = "insertProgress"
  /\ roadmapRows' = [roadmapRows EXCEPT ![handlers[i].roadmapId].progress =
                       Present(Len(LessonsFrom(handlers[i].roadmapData, 1)))]
  /\ handlers' = [handlers EXCEPT ![i].pc = "updateProfile"]
  /\ UNCHANGED <<outsideOnboarding, flowVars, flowLoading, flowError, navigated,
                 alterVars>>

\* part_003 lines 72, 92, 108: a store call of the handler answers with an
\* error; AuthContext.tsx lines 353-356: updateProfile throws
StoreCallFailed(i) ==
  /\ handlers[i].pc \in {"insertRoadmap", "insertLessons", "insertProgress", "updateProfile"}
  /\ HandlerFails(i, RoadmapFailed)
  /\ UNCHANGED <<outsideOnboarding, flowVars, navigated, roadmapRows, alterVars>>

\* part_003 lines 110-117: updateProfile returned, navigate('/dashboard');
\* the OnboardingFlow unmounts and its state is dropped
ProfileUpdated(i) ==
  /\ handlers[i].pc = "updateProfile"
  /\ navigated' = TRUE
  /\ handlers' = RemoveAt(handlers, i)
  /\ step' = 1 /\ goal' = "" /\ questions' = <<>> /\ currentQuestion' = 0
  /\ answers' = {}
  /\ flowLoading' = FALSE /\ flowError' = ""
  /\ UNCHANGED <<outsideOnboarding, roadmapRows, alterVars>>

\* the row the RoadmapView shows: the most recent one, part_001 lines 46-62
Shown == Len(roadmapRows)

\* part_001 lines 117-129, 522: Apply Changes is clicked, generateRoadmap is called
handleAlterRoadmap ==
  /\ navigated /\ roadmapRows # <<>> /\ ~processing /\ alterPc = "idle"
  /\ processing' = TRUE /\ alterPc' = "generating"
  /\ UNCHANGED <<outsideOnboarding, flowVars, flowLoading, flowError, handlers,
                 navigated, roadmapRows, newRoadmapWeeks>>

\* part_001 lines 129-138: generateRoadmap returned roadmapData, the update is sent
AlterRoadmapReturned(roadmapData) ==
  /\ alterPc = "generating"
  /\ newRoadmapWeeks' = roadmapData /\ alterPc' = "updateRoadmap"
  /\ UNCHANGED <<outsideOnboarding, flowVars, flowLoading, flowError, handlers,
                 navigated, roadmapRows, processing>>

\* part_001 lines 192-197: a call of the handler threw or answered with an error
AlterFailed ==
  /\ alterPc \in {"generating", "updateRoadmap", "deleteLessons", "insertLessons",
                  "updateProgress"}
  /\ alterPc' = "idle" /\ processing' = FALSE
  /\ UNCHANGED <<outsideOnboarding, flowVars, flowLoading, flowError, handlers,
                 navigated, roadmapRows, newRoadmapWeeks>>

\* part_001 lines 131-146: the weeks of the row are updated
AlterRoadmapUpdated ==
  /\ alterPc = "updateRoadmap"
  /\ roadmapRows' = [roadmapRows EXCEPT ![Shown].weeks = newRoadmapWeeks]
  /\ alterPc' = "deleteLessons"
  /\ UNCHANGED <<outsideOnboarding, flowVars, flowLoading, flowError, handlers,
                 navigated, newRoadmapWeeks, processing>>

\* part_001 lines 141-167: the lesson rows are deleted; the new rows are
\* built and sent, or building them throws
AlterLessonsDeleted ==
  /\ alterPc = "deleteLessons"
  /\ roadmapRows' = [roadmapRows EXCEPT ![Shown].lessons = <<>>]
  /\ IF TopicsMissing(newRoadmapWeeks)
     THEN alterPc' = "idle" /\ processing' = FALSE
     ELSE alterPc' = "insertLessons" /\ UNCHANGED processing
  /\ UNCHANGED <<outsideOnboarding, flowVars, flowLoading, flowError, handlers,
                 navigated, newRoadmapWeeks>>

\* part_001 lines 163-179: the new lesson rows are inserted
AlterLessonsInserted ==
  /\ alterPc = "insertLessons"
  /\ roadmapRows' = [roadmapRows EXCEPT ![Shown].lessons = LessonsFrom(newRoadmapWeeks, 1)]
  /\ alterPc' = "updateProgress"
  /\ UNCHANGED <<outsideOnboarding, flowVars, flowLoading, flowError, handlers,
                 navigated, newRoadmapWeeks, processing>>

\* part_001 lines 170-197: the user_progress row of the roadmap is updated,
\* the roadmapData refetched
AlterProgressUpdated ==
  /\ alterPc = "updateProgress"
  /\ roadmapRows' = [roadmapRows EXCEPT ![Shown].progress =
                       IF IsAbsent(@) THEN Absent
                       ELSE Present(Len(LessonsFrom(newRoadmapWeeks, 1)))]
  /\ alterPc' = "idle" /\ processing' = FALSE
  /\ UNCHANGED <<outsideOnboarding, flowVars, flowLoading, flowError, handlers,
                 navigated, newRoadmapWeeks>>

NextOnboarding ==
  \/ \E g \in Goals : SetGoal(g)
  \/ handleGoalSubmit
  \/ \E answer \in {"a", "b"} : handleAnswerSelect(answer)
  \/ handleGenerateRoadmap
  \/ \E i \in DOMAIN handlers :
       \/ \E qs \in QuestionLists : QuestionsReturned(i, qs)
       \/ QuestionsFailed(i)
       \/ \E roadmapData \in GeneratedRoadmaps : RoadmapReturned(i, roadmapData)
       \/ RoadmapGenerationFailed(i)
       \/ RoadmapInserted(i)
       \/ LessonsInserted(i)
       \/ ProgressInserted(i)
       \/ StoreCallFailed(i)
       \/ ProfileUpdated(i)
  \/ handleAlterRoadmap
  \/ \E roadmapData \in GeneratedRoadmaps : AlterRoadmapReturned(roadmapData)
  \/ AlterFailed
  \/ AlterRoadmapUpdated
  \/ AlterLessonsDeleted
  \/ AlterLessonsInserted
  \/ AlterProgressUpdated

SpecOnboarding == InitOnboarding /\ [][NextOnboarding]_vars

\* --------------------------------------------------------- SpecSessions
\* completeTest of LessonView.tsx run by several sessions of one user (tabs,
\* or one tab taking a test again) over the user_progress row of one roadmap,
\* and the Dashboard that shows the row. The roadmap has lessons 1 to
\* total_lessons, as handleGenerateRoadmap leaves it.
InitSessions ==
  /\ NormIdle /\ ExecIdle /\ ViewIdle
  /\ lessonCompletions = <<>>
  /\ userProgress \in {[InitialProgress EXCEPT !.total_lessons = n] : n \in 1..NumLessons}
  /\ testPc = "idle" /\ lessonId = 0 /\ finalScore = 0
  /\ progressData = InitialProgress /\ scores = <<>>
  /\ lessons = <<>> /\ completions = <<>> /\ unlocked = <<>>
  /\ lessonScores = <<>> /\ lessonsCompleted = <<>>
  /\ roadmap = Absent /\ roadmapLessons = <<>> /\ roadmapCompletions = <<>>
  /\ weekProgress = <<>> /\ overallProgress = 0

\* LessonView.tsx lines 109-138: session s finishes the test of lesson id with
\* correctAnswers answers right and stores the completion row
SessionSaves(s, id, correctAnswers) ==
  /\ sessionPc[s] = "idle"
  /\ Len(lessonCompletions) < MaxCompletions
  /\ sessionScore' = [sessionScore EXCEPT ![s] = FinalScore(correctAnswers, RoadmapQuestions)]
  /\ lessonCompletions' =
       Append(lessonCompletions,
              [lesson_id |-> id, score |-> FinalScore(correctAnswers, RoadmapQuestions),
               time_spent |-> TimePerTest,
               completed_at |-> Len(lessonCompletions) + 1])
  /\ sessionPc' = [sessionPc EXCEPT ![s] = "saved"]
  /\ UNCHANGED <<outsideSessions, userProgress, scores, sessionData, completionPercentage>>

\* lines 141-146: the select of session s returns the row
SessionReads(s) ==
  /\ sessionPc[s] = "saved"
  /\ sessionData' = [sessionData EXCEPT ![s] = userProgress]
  /\ sessionPc' = [sessionPc EXCEPT ![s] = "read"]
  /\ UNCHANGED <<outsideSessions, lessonCompletions, userProgress, scores, sessionScore,
                 completionPercentage>>

\* lines 141-148: the select returns no row, completeTest ends without an update
SessionReadFails(s) ==
  /\ sessionPc[s] = "saved"
  /\ sessionPc' = [sessionPc EXCEPT ![s] = "idle"]
  /\ UNCHANGED <<outsideSessions, lessonCompletions, userProgress, scores, sessionScore,
                 sessionData, completionPercentage>>

\* lines 148-163: session s writes the update computed from the row it selected
SessionWrites(s) ==
  /\ sessionPc[s] = "read"
  /\ userProgress' =
       [userProgress EXCEPT
          !.completed_lessons =
             ProgressUpdate(sessionData[s], sessionScore[s]).completed_lessons,
          !.total_time_spent =
             ProgressUpdate(sessionData[s], sessionScore[s]).total_time_spent,
          !.average_accuracy =
             ProgressUpdate(sessionData[s], sessionScore[s]).average_accuracy]
  /\ scores' = Append(scores, sessionScore[s])
  /\ sessionPc' = [sessionPc EXCEPT ![s] = "idle"]
  /\ UNCHANGED <<outsideSessions, lessonCompletions, sessionScore, sessionData,
                 completionPercentage>>

\* Dashboard.tsx line 152:
\* Math.round((completed_lessons / Math.max(total_lessons, 1)) * 100)
CompletionPercentage(row) ==
  MathRound(100 * row.completed_lessons,
            IF row.total_lessons > 1 THEN row.total_lessons ELSE 1)

\* Dashboard.tsx lines 39-152: the row is fetched and the dashboard rendered
RenderDashboard ==
  /\ completionPercentage' = CompletionPercentage(userProgress)
  /\ UNCHANGED <<outsideSessions, lessonCompletions, userProgress, scores, sessionPc,
                 sessionScore, sessionData>>

NextSessions ==
  \/ \E s \in Sessions :
       \/ \E id \in 1..userProgress.total_lessons, c \in 0..RoadmapQuestions :
            SessionSaves(s, id, c)
       \/ SessionReads(s)
       \/ SessionReadFails(s)
       \/ SessionWrites(s)
  \/ RenderDashboard

SpecSessions == InitSessions /\ [][NextSessions]_vars

\* --------------------------------------------------------- SpecProgress
InitProgress == NormIdle /\ ExecIdle /\ ProgressIdle /\ ViewIdle

\* LessonView.tsx lines 109-138: the user finishes the test of lesson id with
\* correctAnswers of questionCount answers right; the completion row is stored
SaveCompletion(id, questionCount, correctAnswers) ==
  /\ testPc = "idle"
  /\ Len(lessonCompletions) < MaxCompletions
  /\ lessonId' = id
  /\ finalScore' = FinalScore(correctAnswers, questionCount)
  /\ lessonCompletions' =
       Append(lessonCompletions,
              [lesson_id |-> id, score |-> FinalScore(correctAnswers, questionCount),
               time_spent |-> TimePerTest,
               completed_at |-> Len(lessonCompletions) + 1])
  /\ testPc' = "saved"
  /\ UNCHANGED <<normVars, execVars, viewVars, userProgress, progressData, scores, listVars,
                 roadmapVars>>

\* lines 141-146: the select of the user_progress row returns the row
ReadProgress ==
  /\ testPc = "saved"
  /\ progressData' = userProgress
  /\ testPc' = "read"
  /\ UNCHANGED <<normVars, execVars, viewVars, lessonCompletions, userProgress, lessonId,
                 finalScore, scores, listVars, roadmapVars>>

\* lines 141-148: the select returns no row (an error of the store), so that
\* completeTest ends without an update
ReadProgressFails ==
  /\ testPc = "saved"
  /\ testPc' = "idle" /\ lessonId' = 0
  /\ UNCHANGED <<normVars, execVars, viewVars, lessonCompletions, userProgress, finalScore,
                 progressData, scores, listVars, roadmapVars>>

\* lines 148-163: the update computed from the selected row is written
WriteProgress ==
  /\ testPc = "read"
  /\ userProgress' =
       [userProgress EXCEPT
          !.completed_lessons = ProgressUpdate(progressData, finalScore).completed_lessons,
          !.total_time_spent = ProgressUpdate(progressData, finalScore).total_time_spent,
          !.average_accuracy = ProgressUpdate(progressData, finalScore).average_accuracy]
  /\ scores' = Append(scores, finalScore)
  /\ testPc' = "idle" /\ lessonId' = 0
  /\ UNCHANGED <<normVars, execVars, viewVars, lessonCompletions, finalScore, progressData,
                 listVars, roadmapVars>>

\* LessonsList.tsx lines 20-79 and the render that follows: the lessons and
\* the completions are fetched and every position is rendered locked or not
FetchLessons ==
  /\ lessons' = LessonRows
  /\ completions' = lessonCompletions
  /\ unlocked' =
       [i \in 1..Len(LessonRows) |-> isLessonUnlocked(i - 1, LessonRows, lessonCompletions)]
  /\ lessonScores' =
       [i \in 1..Len(LessonRows) |-> getLessonScore(LessonRows[i].id, lessonCompletions)]
  /\ lessonsCompleted' =
       [i \in 1..Len(LessonRows) |-> isLessonCompleted(LessonRows[i].id, lessonCompletions)]
  /\ UNCHANGED <<normVars, execVars, viewVars, lessonCompletions, userProgress, testPc, lessonId,
                 finalScore, progressData, scores, roadmapVars>>

NextProgress ==
  \/ \E id \in 1..NumLessons, n \in 1..MaxQuestions :
        \E c \in 0..n : SaveCompletion(id, n, c)
  \/ ReadProgress
  \/ ReadProgressFails
  \/ WriteProgress
  \/ FetchLessons

SpecProgress == InitProgress /\ [][NextProgress]_vars

\* ------------------------------------------------------- SpecLessonView
\* LessonView.tsx lines 41-86: runs of fetchLesson, started by the effect of
\* line 41 whenever lessonId or user changes, by any mounted LessonView.  The
\* runs share localStorage; the code never removes an item from it.

\* lines 41-45 and 47-53: the effect starts a run for lesson id and the run
\* awaits the select of the lesson
FetchLessonStarts(r, id) ==
  /\ runPc[r] = "idle"
  /\ runPc' = [runPc EXCEPT ![r] = "selectingLesson"]
  /\ runLessonId' = [runLessonId EXCEPT ![r] = id]
  /\ UNCHANGED <<normVars, execVars, progressVars, runContent, lessonCache,
                 generateCalls, authVars, appVars>>

\* lines 49-66: the lesson arrived, the run awaits the select of all lessons
LessonSelected(r) ==
  /\ runPc[r] = "selectingLesson"
  /\ runPc' = [runPc EXCEPT ![r] = "selectingAll"]
  /\ UNCHANGED <<normVars, execVars, progressVars, runLessonId, runContent,
                 lessonCache, generateCalls, authVars, appVars>>

\* lines 55, 67, 81-85: a select failed, the run logs the error and ends
SelectFails(r) ==
  /\ runPc[r] \in {"selectingLesson", "selectingAll"}
  /\ runPc' = [runPc EXCEPT ![r] = "done"]
  /\ UNCHANGED <<normVars, execVars, progressVars, runLessonId, runContent,
                 lessonCache, generateCalls, authVars, appVars>>

\* lines 67-76: all lessons arrived; the item is read and either decoded and
\* shown, or generateLessonContent is called and awaited
AllLessonsSelected(r) ==
  /\ runPc[r] = "selectingAll"
  /\ IF ~IsAbsent(lessonCache[runLessonId[r]])
     THEN /\ runContent' =
               [runContent EXCEPT
                  ![r] = Present(JsonDecode(Get(lessonCache[runLessonId[r]])).value)]
          /\ runPc' = [runPc EXCEPT ![r] = "done"]
          /\ UNCHANGED generateCalls
     ELSE /\ generateCalls' =
               [generateCalls EXCEPT ![runLessonId[r]] = generateCalls[runLessonId[r]] + 1]
          /\ runPc' = [runPc EXCEPT ![r] = "generating"]
          /\ UNCHANGED runContent
  /\ UNCHANGED <<normVars, execVars, progressVars, runLessonId, lessonCache, authVars, appVars>>

\* lines 76-78: generateLessonContent returned c; it is shown and stored
GenerationReturns(r, c) ==
  /\ runPc[r] = "generating"
  /\ runContent' = [runContent EXCEPT ![r] = Present(c)]
  /\ lessonCache' = [lessonCache EXCEPT ![runLessonId[r]] = Present(Stringify(c))]
  /\ runPc' = [runPc EXCEPT ![r] = "done"]
  /\ UNCHANGED <<normVars, execVars, progressVars, runLessonId, generateCalls, authVars, appVars>>

\* lines 76, 81-85: generateLessonContent threw; nothing is stored
GenerationFails(r) ==
  /\ runPc[r] = "generating"
  /\ runPc' = [runPc EXCEPT ![r] = "done"]
  /\ UNCHANGED <<normVars, execVars, progressVars, runLessonId, runContent,
                 lessonCache, generateCalls, authVars, appVars>>

InitLessonView == NormIdle /\ ExecIdle /\ ProgressIdle /\ ViewIdle

NextLessonView ==
  \E r \in Runs :
    \/ \E id \in OpenedLessons : FetchLessonStarts(r, id)
    \/ LessonSelected(r)
    \/ SelectFails(r)
    \/ AllLessonsSelected(r)
    \/ \E c \in GeneratedContents : GenerationReturns(r, c)
    \/ GenerationFails(r)

SpecLessonView == InitLessonView /\ [][NextLessonView]_vars

\* ------------------------------------------------------------- SpecAuth
\* AuthContext.tsx lines 131-223: the effect of the AuthProvider, which is
\* mounted at the root for the whole session (mounted stays true).

\* lines 225-241: fetchProfile(userId) is called and awaits the select
StartProfileFetch(userId, caller) ==
  profileFetches' =
    Append(profileFetches, [userId |-> userId, caller |-> caller, state |-> "pending"])

\* lines 136-175: getSession resolved with the session of user u, 0 for none
GetSessionResolves(u) ==
  /\ initPc = "session"
  /\ user' = u
  /\ IF u # 0
     THEN /\ StartProfileFetch(u, "init")
          /\ initPc' = "profile"
          /\ UNCHANGED <<profile, loading>>
     ELSE /\ profile' = 0 /\ loading' = FALSE
          /\ initPc' = "done"
          /\ UNCHANGED profileFetches
  /\ UNCHANGED <<normVars, execVars, progressVars, lessonViewVars, appVars, isNewUser,
                 authError, authEvents>>

\* lines 150-160 and 176-184: getSession gave an error or timed out
GetSessionFails ==
  /\ initPc = "session"
  /\ authError' = "session"
  /\ user' = 0 /\ profile' = 0 /\ loading' = FALSE
  /\ initPc' = "done"
  /\ UNCHANGED <<normVars, execVars, progressVars, lessonViewVars, appVars, isNewUser,
                 profileFetches, authEvents>>

\* lines 192-217: the callback of onAuthStateChange for an event whose
\* session belongs to user u, 0 for no session
AuthStateChange(event, u) ==
  /\ authEvents < MaxAuthEvents
  /\ (event = "SIGNED_OUT") <=> (u = 0)
  /\ authEvents' = authEvents + 1
  /\ authError' = "none"
  /\ user' = u
  /\ IF u # 0
     THEN /\ isNewUser' = IF event = "SIGNED_UP" THEN TRUE ELSE isNewUser
          /\ StartProfileFetch(u, "event")
          /\ UNCHANGED <<profile, loading>>
     ELSE /\ profile' = 0 /\ isNewUser' = FALSE /\ loading' = FALSE
          /\ UNCHANGED profileFetches
  /\ UNCHANGED <<normVars, execVars, progressVars, lessonViewVars, appVars, initPc>>

\* lines 242-261, then 170 or 211: the i-th fetchProfile call settles with
\* result, sets profile and error, and its caller sets loading to false
ProfileFetchSettles(i, result) ==
  /\ i \in DOMAIN profileFetches
  /\ profileFetches[i].state = "pending"
  /\ profile' = IF result = "data" THEN profileFetches[i].userId ELSE 0
  /\ authError' = IF result = "data" THEN "none"
                  ELSE IF result = "none" THEN authError
                  ELSE result
  /\ loading' = FALSE
  /\ initPc' = IF profileFetches[i].caller = "init" THEN "done" ELSE initPc
  /\ profileFetches' = [profileFetches EXCEPT ![i].state = "settled"]
  /\ UNCHANGED <<normVars, execVars, progressVars, lessonViewVars, appVars, user, isNewUser,
                 authEvents>>

InitAuth == NormIdle /\ ExecIdle /\ ProgressIdle /\ ViewIdle

NextAuth ==
  \/ \E u \in {0} \cup UserIds : GetSessionResolves(u)
  \/ GetSessionFails
  \/ \E event \in AuthEventKinds, u \in {0} \cup UserIds : AuthStateChange(event, u)
  \/ \E i \in 1..(MaxAuthEvents + 1), result \in ProfileResults :
        ProfileFetchSettles(i, result)

SpecAuth == InitAuth /\ [][NextAuth]_vars

\* --------------------------------------------------------- SpecAuthLive
\* The AuthProvider with its signIn and signUp, and its scheduling.

\* AuthContext.tsx lines 299-307: signIn is called
SignInStarts ==
  /\ signPc = "idle" /\ signCalls < MaxSignCalls
  /\ loading' = TRUE /\ authError' = "none" /\ isNewUser' = FALSE
  /\ signPc' = "signingIn" /\ signCalls' = signCalls + 1
  /\ eventsAtSignIn' = authEvents
  /\ UNCHANGED <<outsideSign, user, profile, initPc, profileFetches, authEvents>>

\* lines 305-322: signInWithPassword resolved with the user, after the auth
\* event of the sign-in was delivered to the callback; signIn waits 100 ms
\* and returns, loading is left to the callback
SignInReturns ==
  /\ signPc = "signingIn" /\ authEvents > eventsAtSignIn
  /\ signPc' = "idle"
  /\ UNCHANGED <<outsideSign, authVars, eventsAtSignIn, signCalls>>

\* the mutant of SignInFails: the catch block leaves loading as it is
SignInFailsLoading ==
  /\ signPc = "signingIn"
  /\ authError' = "signin"
  /\ signPc' = "idle"
  /\ UNCHANGED <<outsideSign, user, profile, loading, isNewUser, initPc, profileFetches,
                 authEvents, eventsAtSignIn, signCalls>>

\* lines 310-329: signInWithPassword gave an error or no user, or threw
SignInFails ==
  /\ signPc = "signingIn"
  /\ loading' = FALSE /\ authError' = "signin"
  /\ signPc' = "idle"
  /\ UNCHANGED <<outsideSign, user, profile, isNewUser, initPc, profileFetches,
                 authEvents, eventsAtSignIn, signCalls>>

\* lines 264-279: signUp is called
SignUpStarts ==
  /\ signPc = "idle" /\ signCalls < MaxSignCalls
  /\ loading' = TRUE /\ authError' = "none" /\ isNewUser' = TRUE
  /\ signPc' = "signingUp" /\ signCalls' = signCalls + 1
  /\ UNCHANGED <<outsideSign, user, profile, initPc, profileFetches, authEvents,
                 eventsAtSignIn>>

\* lines 270-297: auth.signUp settled, with the user (created) or without
SignUpSettles(created) ==
  /\ signPc = "signingUp"
  /\ isNewUser' = IF created THEN isNewUser ELSE FALSE
  /\ authError' = IF created THEN authError ELSE "signup"
  /\ loading' = FALSE
  /\ signPc' = "idle"
  /\ UNCHANGED <<outsideSign, user, profile, initPc, profileFetches, authEvents,
                 eventsAtSignIn, signCalls>>

\* one account signs in and out: 0 for no session, 1 for the user
Accounts == {0, 1}

NextAuthLive ==
  \/ \E u \in Accounts : GetSessionResolves(u)
  \/ GetSessionFails
  \/ \E event \in AuthEventKinds, u \in Accounts : AuthStateChange(event, u)
  \/ \E i \in 1..(MaxAuthEvents + 1), result \in ProfileResults :
        ProfileFetchSettles(i, result)
  \/ SignInStarts
  \/ SignInReturns
  \/ SignInFails
  \/ SignUpStarts
  \/ \E created \in BOOLEAN : SignUpSettles(created)

\* lines 139-147: getSession is raced with a timer of 45 s, so the await of
\* initializeAuth ends
GetSessionSettles == (\E u \in Accounts : GetSessionResolves(u)) \/ GetSessionFails

\* lines 236-243: the select of fetchProfile is raced with a timer of 45 s,
\* so every fetchProfile call settles
FetchProfileSettles(i) == \E result \in ProfileResults : ProfileFetchSettles(i, result)

\* No fairness for the auth events, nor for signInWithPassword and
\* auth.signUp, which the code awaits without a timer.
SpecAuthLive ==
  /\ InitAuth /\ [][NextAuthLive]_vars
  /\ WF_vars(GetSessionSettles)
  /\ \A i \in 1..(MaxAuthEvents + 1) : WF_vars(FetchProfileSettles(i))

\* ------------------------------------------------------- SpecNavigation
\* The routes to /lessons/<id>: the links of the LessonsList, the links of
\* the RoadmapView, and the Previous and Next buttons of the LessonView.
\* The effect of LessonView.tsx lines 41-45 runs fetchLesson for whatever id
\* the route carries; fetchLesson (lines 47-86) reads no completion.
InitNavigation == NormIdle /\ ExecIdle /\ ProgressIdle /\ ViewIdle

\* the position of lesson id in the ordered lessons, counted from 0
IndexOfLesson(id) == (CHOOSE i \in 1..Len(LessonRows) : LessonRows[i].id = id) - 1

\* LessonsList.tsx lines 224-246: the link of position i, rendered when the
\* position is unlocked
OpenFromList(i) ==
  /\ i \in DOMAIN unlocked /\ unlocked[i]
  /\ openLesson' = lessons[i].id
  /\ UNCHANGED outsideNavigation

\* part_001 lines 408-424: the link of a topic, rendered when the topic has
\* a lesson row
OpenFromRoadmap(i) ==
  /\ i \in 1..Len(LessonRows)
  /\ openLesson' = LessonRows[i].id
  /\ UNCHANGED outsideNavigation

\* LessonView.tsx lines 170-177, 196-198: Previous or Next
navigateToLesson(direction) ==
  /\ openLesson # 0
  /\ LET currentIndex == IndexOfLesson(openLesson)
         targetIndex == IF direction = "next" THEN currentIndex + 1 ELSE currentIndex - 1
     IN /\ targetIndex >= 0 /\ targetIndex < Len(LessonRows)
        /\ openLesson' = LessonRows[targetIndex + 1].id
  /\ UNCHANGED outsideNavigation

\* LessonView.tsx lines 94-138: the test of the lesson shown is finished
CompleteOpenLesson(correctAnswers) ==
  /\ openLesson # 0
  /\ SaveCompletion(openLesson, RoadmapQuestions, correctAnswers)

NextNavigation ==
  \/ FetchLessons
  \/ \E i \in 1..NumLessons : OpenFromList(i)
  \/ \E i \in 1..NumLessons : OpenFromRoadmap(i)
  \/ \E direction \in {"prev", "next"} : navigateToLesson(direction)
  \/ \E c \in 0..RoadmapQuestions : CompleteOpenLesson(c)
  \/ ReadProgress
  \/ ReadProgressFails
  \/ WriteProgress

SpecNavigation == InitNavigation /\ [][NextNavigation]_vars

\* ---------------------------------------------------------- SpecRoadmap
\* RoadmapView.tsx lines 160-164 and 116-121: the render of the screen calls
\* getWeekProgress({...week, weekNumber: weekIndex + 1}) for every week of
\* the roadmap and getOverallProgress()
RenderRoadmap(weeks, rows, comps) ==
  /\ weekProgress' =
       [w \in 1..Len(weeks) |-> getWeekProgress([weekNumber |-> w], rows, comps)]
  /\ overallProgress' = getOverallProgress(rows, comps)

\* RoadmapView.tsx lines 28-76: the roadmap, its lessons and the completions
\* of the user are fetched, and the screen is rendered
FetchRoadmapData ==
  /\ roadmap' = Present(RoadmapWeeks)
  /\ roadmapLessons' = LessonRows
  /\ roadmapCompletions' = lessonCompletions
  /\ RenderRoadmap(RoadmapWeeks, LessonRows, lessonCompletions)
  /\ UNCHANGED <<normVars, execVars, viewVars, lessonCompletions, userProgress, testPc, lessonId,
                 finalScore, progressData, scores, listVars>>

\* lines 51-59: the select of the lessons fails after setRoadmap; the lessons
\* and completions of the screen stay as they were
FetchRoadmapLessonsFail ==
  /\ roadmap' = Present(RoadmapWeeks)
  /\ RenderRoadmap(RoadmapWeeks, roadmapLessons, roadmapCompletions)
  /\ UNCHANGED <<normVars, execVars, viewVars, lessonCompletions, userProgress, testPc, lessonId,
                 finalScore, progressData, scores, listVars, roadmapLessons,
                 roadmapCompletions>>

\* lines 62-68: the select of the completions fails after setLessons
FetchRoadmapCompletionsFail ==
  /\ roadmap' = Present(RoadmapWeeks)
  /\ roadmapLessons' = LessonRows
  /\ RenderRoadmap(RoadmapWeeks, LessonRows, roadmapCompletions)
  /\ UNCHANGED <<normVars, execVars, viewVars, lessonCompletions, userProgress, testPc, lessonId,
                 finalScore, progressData, scores, listVars, roadmapCompletions>>

\* the RoadmapView reads the lesson_id of a completion row only; the tests
\* completed here have RoadmapQuestions questions
NextRoadmap ==
  \/ \E id \in 1..NumLessons, c \in 0..RoadmapQuestions :
        SaveCompletion(id, RoadmapQuestions, c)
  \/ ReadProgress
  \/ ReadProgressFails
  \/ WriteProgress
  \/ FetchRoadmapData
  \/ FetchRoadmapLessonsFail
  \/ FetchRoadmapCompletionsFail

SpecRoadmap == InitProgress /\ [][NextRoadmap]_vars

\* =============================================================== claims
\* the notions the claims are stated in, written without the operators above
HasSpan(t, open, close) ==
  \E i, j \in 1..Len(t) : i < j /\ t[i] = open /\ t[j] = close

FirstPos(t, c) == CHOOSE i \in 1..Len(t) : t[i] = c /\ \A j \in 1..(i - 1) : t[j] # c
LastPos(t, c) == CHOOSE i \in 1..Len(t) : t[i] = c /\ \A j \in (i + 1)..Len(t) : t[j] # c

\* the text from the first opening to the last closing character
Span(t, open, close) == SubSeq(t, FirstPos(t, open), LastPos(t, close))

\* the payload lacks the candidates list, a first candidate, its content, the
\* parts list, a first part or the text of that part
LacksTextShape(d) ==
  \/ d.candidates = <<>>
  \/ d.candidates[1] = <<>>
  \/ d.candidates[1][1].content = <<>>
  \/ d.candidates[1][1].content[1].parts = <<>>
  \/ d.candidates[1][1].content[1].parts[1] = <<>>
  \/ d.candidates[1][1].content[1].parts[1][1].text = <<>>

\* a payload was decoded by the call that has settled
Decoded == pc = "settled" /\ data # <<>>

\* C1: generateQuestions and generateRoadmap fail with their generation-failed
\* error whenever the decoded value is not an array; neither returns a
\* substituted value for it.
C1_NonArrayFails ==
  (pc = "settled" /\ op \in {"questions", "roadmap"}
     /\ execResult.kind = "value" /\ execResult.value.type # "array")
  => (outcome.kind = "error" /\ outcome.error.name = "Error"
      /\ outcome.error.message \in
           {"Failed to generate questions - please try again",
            "Failed to generate roadmap - please try again"})

\* C2: when the timer fires before the endpoint has responded, the request is
\* aborted through the controller and the call fails with the timeout error,
\* never with a decoded value.
C2_TimeoutAborts ==
  timer = "fired"
  => /\ aborted
     /\ pc \in {"fetching", "settled"}
     /\ status = 0 /\ data = <<>>
     /\ (pc = "settled"
          => /\ execResult.kind = "error"
             /\ execResult.error.name = "Error"
             /\ execResult.error.message = "Request timeout - please try again")

C2_Witness == timer = "fired" /\ pc = "settled" /\ aborted

\* C3: when the cleaned text has a brace span and a bracket span,
\* cleanJsonResponse returns the one that opens earlier; when it has only one
\* of them it returns that one; the text around the span is dropped.
C3_EarlierSpanWins ==
  normPc = "cleaned"
  => LET t == StripFences(content)
         brace == HasSpan(t, "{", "}")
         bracket == HasSpan(t, "[", "]")
     IN /\ (brace /\ bracket)
             => cleanedContent = IF FirstPos(t, "[") < FirstPos(t, "{")
                                 THEN Span(t, "[", "]")
                                 ELSE Span(t, "{", "}")
        /\ (brace /\ ~bracket) => cleanedContent = Span(t, "{", "}")
        /\ (bracket /\ ~brace) => cleanedContent = Span(t, "[", "]")

\* both spans, the bracket span first, and text dropped after it
C3_Witness ==
  /\ normPc = "cleaned"
  /\ HasSpan(StripFences(content), "{", "}")
  /\ HasSpan(StripFences(content), "[", "]")
  /\ FirstPos(StripFences(content), "[") < FirstPos(StripFences(content), "{")
  /\ Len(cleanedContent) < Len(StripFences(content))
  /\ cleanedContent[1] = "["

\* the response text of the settled call has neither span
NoSpanDecoded ==
  /\ Decoded
  /\ ~LacksTextShape(data[1])
  /\ ~HasSpan(StripFences(content), "{", "}")
  /\ ~HasSpan(StripFences(content), "[", "]")

\* C4 as stated: for a text with no brace span and no bracket span,
\* cleanJsonResponse returns the trimmed, fence-stripped text unchanged and
\* makeGeminiRequest fails with the not-JSON error.
C4_NoSpanNotJson ==
  NoSpanDecoded
  => /\ cleanedContent = StripFences(content)
     /\ execResult.kind = "error"
     /\ execResult.error.message = "Invalid JSON response from AI"

\* C4 amended: for such a text cleanJsonResponse returns the trimmed,
\* fence-stripped text unchanged and makeGeminiRequest never returns a value;
\* it fails with the not-JSON error when that text is empty or does not begin
\* with { or [, and with the parse error when it begins with { or [.
C4_NoSpanFails ==
  NoSpanDecoded
  => /\ cleanedContent = StripFences(content)
     /\ execResult.kind = "error"
     /\ execResult.error.name = "Error"
     /\ execResult.error.message =
          IF cleanedContent # <<>> /\ cleanedContent[1] \in {"{", "["}
          THEN "Failed to parse AI response as JSON"
          ELSE "Invalid JSON response from AI"

\* an unclosed brace: no span, yet the text begins with {
C4_Witness ==
  /\ NoSpanDecoded
  /\ cleanedContent # <<>> /\ cleanedContent[1] = "{"
  /\ execResult.error.message = "Failed to parse AI response as JSON"

\* C5: an ok response whose payload lacks the candidates list, the first
\* candidate, its content, the parts list, the first part or its text makes
\* makeGeminiRequest fail with the invalid-response-shape error and no other.
C5_ShapeError ==
  (Decoded /\ ResponseOk(status) /\ LacksTextShape(data[1]))
  => (execResult.kind = "error"
      /\ execResult.error.name = "Error"
      /\ execResult.error.message = "Invalid response structure from AI")

\* the one message a use case gives its caller
FixedMessage(o) ==
  CASE o = "questions" -> "Failed to generate questions - please try again"
    [] o = "roadmap" -> "Failed to generate roadmap - please try again"
    [] o = "lesson" -> "Failed to generate lesson content - please try again"

\* C6: whatever failure makeGeminiRequest produces, the facade operation
\* fails with the one fixed message of its use case, and the error the caller
\* receives carries no status code and no body text.
C6_FixedMessage ==
  pc = "settled"
  => /\ execResult.kind = "error" => outcome.kind = "error"
     /\ outcome.kind = "error"
          => /\ outcome.error.name = "Error"
             /\ outcome.error.message = FixedMessage(op)
             /\ outcome.error.status = 0
             /\ outcome.error.body = <<>>

\* a transport error with a status and a body, and the fixed message outside
C6_Witness ==
  /\ pc = "settled"
  /\ execResult.kind = "error"
  /\ execResult.error.status = 500 /\ execResult.error.body # <<>>
  /\ outcome.kind = "error"
  /\ outcome.error.message = FixedMessage(op)

\* C7: a call issues at most one network request whatever its outcome; a
\* further request takes a further invocation.
C7_NoRetry == requests <= 1 /\ totalRequests <= calls

\* the second invocation has failed like the first and two requests were sent
C7_Witness ==
  /\ calls = 2 /\ totalRequests = 2 /\ requests = 1
  /\ pc = "settled" /\ execResult.kind = "error"

RECURSIVE Sum(_)
Sum(q) == IF q = <<>> THEN 0 ELSE Head(q) + Sum(Tail(q))

\* C8: after n >= 1 completions applied one after another to a row that began
\* at 0 lessons and average 0, completed_lessons is n and average_accuracy is
\* (average after n-1 * (n-1) + score n) / n, the arithmetic mean of the scores.
C8_RunningMean ==
  LET n == Len(scores)
      avg == userProgress.average_accuracy
      prev == progressData.average_accuracy
  IN /\ userProgress.completed_lessons = n
     /\ n >= 1 => avg.num * n = Sum(scores) * avg.den
     /\ (n >= 1 /\ testPc # "read")
          => avg.num * (prev.den * n) = (prev.num * (n - 1) + scores[n] * prev.den) * avg.den

\* two completions whose mean is no integer
C8_Witness ==
  /\ Len(scores) = 2
  /\ userProgress.completed_lessons = 2
  /\ userProgress.average_accuracy.den = 2

\* C9: the step of completeTest that found a row with average oldAvg and
\* count oldCount and computed score s writes average_accuracy =
\* (oldAvg * oldCount + s) / (oldCount + 1) unrounded, completed_lessons =
\* oldCount + 1 and total_time_spent = old total + 30, and leaves total_lessons
\* and current_week as they were.
C9_UpdateStep ==
  [][(testPc = "read" /\ testPc' = "idle")
      => LET oldAvg == progressData.average_accuracy
             oldCount == progressData.completed_lessons
             newAvg == userProgress'.average_accuracy
         IN /\ newAvg.num * (oldAvg.den * (oldCount + 1))
                 = (oldAvg.num * oldCount + finalScore * oldAvg.den) * newAvg.den
            /\ userProgress'.completed_lessons = oldCount + 1
            /\ userProgress'.total_time_spent = progressData.total_time_spent + 30
            /\ userProgress'.total_lessons = userProgress.total_lessons
            /\ userProgress'.current_week = userProgress.current_week]_vars

\* the update of a row of count 1 has stored an average that is no integer
C9_Witness ==
  /\ testPc = "idle"
  /\ progressData.completed_lessons = 1
  /\ progressData.total_time_spent = 30
  /\ userProgress.total_time_spent = 60
  /\ userProgress.average_accuracy.den > 1

\* C10: in the lessons list position 0 is unlocked, and position i > 0 is
\* unlocked exactly when the lesson at position i-1 has a completion record,
\* whatever other lessons are completed.
C10_LinearGating ==
  \A i \in 1..Len(unlocked) :
    unlocked[i] <=> (i = 1 \/ \E k \in 1..Len(completions) :
                                 completions[k].lesson_id = lessons[i - 1].id)

\* the first lesson done and nothing else: the third position stays locked;
\* and a list where a later lesson is done while the second is locked
C10_Witness ==
  /\ Len(unlocked) >= 3
  /\ unlocked[1] /\ ~unlocked[2] /\ unlocked[3]
  /\ \E k \in 1..Len(completions) : completions[k].lesson_id = lessons[3].id

\* the positions of the fetched completion rows of the lesson shown at
\* position i of the LessonsList
RowsOf(i) == {k \in DOMAIN completions : completions[k].lesson_id = lessons[i].id}

\* C11 as stated: the score shown for a lesson is the score of its most
\* recent completion row (latest completed_at), 0 when it has none; the score
\* of an older row is never shown.
C11_LatestScore ==
  \A i \in DOMAIN lessonScores :
    lessonScores[i] =
      IF RowsOf(i) = {} THEN 0
      ELSE completions[CHOOSE k \in RowsOf(i) :
                         \A j \in RowsOf(i) :
                           completions[j].completed_at <= completions[k].completed_at].score

\* C12: a lesson is shown completed exactly when at least one fetched
\* completion row carries its lesson_id, whatever the score of that row.
C12_CompletedIffRecord ==
  \A i \in DOMAIN lessonsCompleted :
    lessonsCompleted[i] <=> Cardinality(RowsOf(i)) >= 1

\* a lesson whose only rows have score 0 is shown completed, another is not
C12_Witness ==
  /\ \E i \in DOMAIN lessonsCompleted :
       /\ lessonsCompleted[i]
       /\ \A k \in RowsOf(i) : completions[k].score = 0
  /\ \E i \in DOMAIN lessonsCompleted : ~lessonsCompleted[i]

\* the lessons of week w on the RoadmapView, and those of them with a
\* completion row
WeekRows(w) == {i \in DOMAIN roadmapLessons : roadmapLessons[i].week_number = w}
DoneRows(rows) ==
  {i \in rows : \E k \in DOMAIN roadmapCompletions :
                  roadmapCompletions[k].lesson_id = roadmapLessons[i].id}

\* r is 100 * c / t rounded to the nearest integer, halves up, and 0 for t = 0
IsRoundedPercent(r, c, t) ==
  /\ r \in 0..100
  /\ IF t = 0 THEN r = 0
     ELSE 2 * (r * t - 100 * c) <= t /\ 2 * (100 * c - r * t) < t

Unfenced(t) == ~StartsWith(Trim(t), Fence) /\ ~EndsWith(Trim(t), Fence)

\* C14 as stated: for every inner text, cleanJsonResponse gives the same
\* result for the text inside a json fence, inside a plain fence and bare.
C14_FenceInvariant ==
  ~IsAbsent(fenceResults)
  => /\ Get(fenceResults).json = Get(fenceResults).fence
     /\ Get(fenceResults).fence = Get(fenceResults).bare

\* C14 amended: the json fence and the plain fence give the same result for
\* every inner text, and the bare text gives that result too whenever the
\* trimmed inner text neither begins nor ends with a fence marker.
C14_FenceInvariantUnfenced ==
  ~IsAbsent(fenceResults)
  => /\ Get(fenceResults).json = Get(fenceResults).fence
     /\ Unfenced(inner) => Get(fenceResults).fence = Get(fenceResults).bare

\* an inner text with blanks around a span and a backtick, normalized alike
C14_Witness ==
  /\ ~IsAbsent(fenceResults)
  /\ Unfenced(inner)
  /\ Backtick \in {inner[i] : i \in DOMAIN inner}
  /\ Get(fenceResults).bare # <<>>
  /\ Len(Get(fenceResults).bare) < Len(inner)
  /\ Get(fenceResults).json = Get(fenceResults).bare

\* C15: for every well-formed WeekPlan array, the empty array and weeks whose
\* strings hold braces, brackets, quotes or backslashes included, decoding
\* cleanJsonResponse of the fence-wrapped serialization gives a value equal to
\* the array.
C15_RoundTrip ==
  parsedWeeks.kind # "pending" => parsedWeeks.kind = "value" /\ parsedWeeks.value = roadmapWeeks

\* a roadmap with a topic whose strings hold a closing bracket and a quote
C15_Witness ==
  /\ parsedWeeks.kind = "value"
  /\ Len(roadmapWeeks.v) >= 1
  /\ Len(roadmapWeeks.v[1].v[2].value.v) >= 1
  /\ roadmapWeeks.v[1].v[1].value.v = <<"]", "\"">>
  /\ parsedWeeks.value.v[1].v[2].value.v[1].v[1].value.v = <<"]", "\"">>

Undecodable ==
  /\ pc = "settled" /\ ~IsAbsent(data) /\ HasText(data[1])
  /\ cleanedContent # <<>> /\ cleanedContent[1] \in {"{", "["}
  /\ ~JsonValid(cleanedContent)

\* C17: when the normalized text begins with { or [ but is not decodable,
\* makeGeminiRequest fails with the parse error after logging the decode
\* error and then the normalized text; the error it gives its caller, and the
\* one the facade gives its own, hold neither of them.
C17_ParseErrorLogged ==
  Undecodable
  => /\ execResult = Thrown(ParseFailedError)
     /\ execResult.error.message = "Failed to parse AI response as JSON"
     /\ execResult.error.body = <<>>
     /\ outcome.kind = "error" /\ outcome.error.body = <<>>
     /\ outcome.error.name = "Error"
     /\ Len(consoleError) = 3
     /\ consoleError[1].label = "JSON Parse Error:"
     /\ consoleError[1].error.name = "SyntaxError"
     /\ consoleError[2].label = "Cleaned content:"
     /\ consoleError[2].text = cleanedContent
     /\ consoleError[3].text = <<>>
     /\ consoleError[3].error \in {NoError, ParseFailedError}

\* an undecodable text that normalization shortened
C17_Witness ==
  /\ Undecodable
  /\ content # cleanedContent
  /\ execResult.error.message = "Failed to parse AI response as JSON"
  /\ consoleError[2].text = cleanedContent

\* the fields a LessonContent must carry
LessonFields ==
  {<<"l", "e", "s", "s", "o", "n", "C", "o", "n", "t", "e", "n", "t">>,
   <<"k", "e", "y", "C", "o", "n", "c", "e", "p", "t", "s">>,
   <<"e", "x", "a", "m", "p", "l", "e", "C", "o", "d", "e">>,
   <<"a", "s", "s", "e", "s", "s", "m", "e", "n", "t", "Q", "u", "e", "s", "t", "i", "o", "n", "s">>}

\* the decoded value v is one object holding every field of a LessonContent
IsLessonContent(v) ==
  /\ v.type = "object"
  /\ \A field \in LessonFields :
       \E m \in DOMAIN JsonDecode(v.json).value.v :
         JsonDecode(v.json).value.v[m].key = field

\* C18 as stated: generateLessonContent returns a value only when the decoded
\* response is a single LessonContent object, not an array and with the
\* lessonContent, keyConcepts, exampleCode and assessmentQuestions fields.
C18_LessonValidated ==
  (pc = "settled" /\ op = "lesson" /\ outcome.kind = "value")
  => IsLessonContent(outcome.value)

\* C19: for each lesson id, generateLessonContent is called at most once
\* while the item lesson_<id> has not been cleared, over every interleaving
\* of fetchLesson runs for that lesson.
C19_GenerateAtMostOnce ==
  \A id \in OpenedLessons : generateCalls[id] <= 1

\* the fetchProfile calls that have not settled
PendingFetches == {i \in DOMAIN profileFetches : profileFetches[i].state = "pending"}

\* C20: a profile fetch started for an earlier auth event never overwrites the
\* state set by a later one: at most one fetch is in flight, and once every
\* fetch has settled the stored profile belongs to the user of the latest
\* event; after a sign-out user and profile are both null.
C20_LatestEventWins ==
  /\ Cardinality(PendingFetches) <= 1
  /\ (PendingFetches = {} /\ initPc = "done")
       => /\ user = 0 => profile = 0
          /\ profile # 0 => profile = user

\* the call is suspended at an await of makeGeminiRequest
Suspended == pc \in {"fetching", "readingText", "readingJson"}

\* C21 as stated: every call of makeGeminiRequest eventually settles, with a
\* value or an error, whatever the endpoint does: no response, a head whose
\* body never finishes, an error status, a complete response.
C21_EventuallySettles == Suspended ~> (pc = "settled")

\* how a call settles that runs alone, given its timer, the response it got
\* and what the body of that response resolved with
AloneResult(i) ==
  IF timeoutIds[i] = "fired" THEN Thrown(TimeoutError)
  ELSE IF responses[i] = 0 THEN Thrown(NetworkError)
  ELSE IF ~ResponseOk(responses[i])
       THEN Thrown(TransportError(responses[i], bodies[i].text))
  ELSE IF bodies[i].kind = "rejected" THEN Thrown(BodySyntaxError)
  ELSE ExecutorSettles(DecodeResponse(bodies[i].data))

\* the state of call i
CallState(i) ==
  <<callPc[i], timeoutIds[i], controllers[i], responses[i], bodies[i], callResults[i]>>

\* a request is aborted exactly when the timer of its own call has fired, and
\* a settled call has the outcome it has alone
C22_OwnOutcome ==
  \A i \in Calls :
    /\ controllers[i] <=> timeoutIds[i] = "fired"
    /\ callPc[i] = "settled" => callResults[i] = AloneResult(i)

\* a step of one call leaves every other call as it was
C22_OneCallPerStep ==
  \E i \in Calls : \A j \in Calls \ {i} : CallState(j)' = CallState(j)

\* C22: calls in flight at the same time have each their own controller and
\* timer: the timer of one call firing aborts only that call's request, no
\* step of a call changes another call, and every call settles as it does
\* when it runs alone.
C22_OwnControllerAndTimer == []C22_OwnOutcome /\ [][C22_OneCallPerStep]_vars

\* two calls in flight, the timer of the first fired and its request
\* aborted, the second not aborted
C22_Witness ==
  /\ callPc[1] = "fetching" /\ timeoutIds[1] = "fired" /\ controllers[1]
  /\ callPc[2] = "fetching" /\ timeoutIds[2] = "armed" /\ ~controllers[2]

\* the handlers suspended in a generation call
InFlightGenerations ==
  {i \in DOMAIN handlers : handlers[i].pc \in {"questions", "roadmap"}}

\* C23: in the onboarding flow at most one generation call is in flight;
\* loading is true exactly while a handler runs, so no generation call is
\* started while one is pending and loading is false again once the handler
\* that made the call has finished, with success or failure.
C23_OneGenerationInFlight ==
  /\ Cardinality(InFlightGenerations) <= 1
  /\ Len(handlers) <= 1
  /\ flowLoading <=> handlers # <<>>

\* a failed generation was retried: the second call is in flight, loading is true
C23_Witness ==
  /\ step = 3 /\ flowLoading
  /\ \E i \in DOMAIN handlers : handlers[i].pc = "roadmap"
  /\ roadmapRows # <<>>

\* C28 as stated: whenever the onboarding flow is at step 2 the question list
\* is non-empty and currentQuestion is an index into it, so a question with
\* its options is shown.
C28_QuestionShown ==
  step = 2 => (Len(questions) > 0 /\ currentQuestion < Len(questions))

\* the topics of a week, none for a week without a topics array
TopicsOf(week) == IF IsAbsent(week.topics) THEN <<>> ELSE Get(week.topics)

\* one row for every topic of the weeks from w on: week_number is the index
\* of the week plus one, order_index the index of the topic
RECURSIVE TopicRows(_, _)
TopicRows(weeks, w) ==
  IF w > Len(weeks) THEN <<>>
  ELSE [t \in 1..Len(TopicsOf(weeks[w])) |->
          [week_number |-> w, title |-> TopicsOf(weeks[w])[t], order_index |-> t - 1]]
       \o TopicRows(weeks, w + 1)

\* no handler of the onboarding or of the alteration is running
Quiescent == handlers = <<>> /\ alterPc = "idle"

\* C27 as stated: in every state that onboarding and alteration leave behind,
\* a failed store call included, the lesson rows of every roadmap are the
\* rows of the topics of its weeks, and total_lessons of its user_progress
\* row, when it has one, is the number of its lesson rows.
C27_LessonsMatchWeeks ==
  Quiescent
  => \A r \in DOMAIN roadmapRows :
       /\ roadmapRows[r].lessons = TopicRows(roadmapRows[r].weeks, 1)
       /\ IsAbsent(roadmapRows[r].progress)
            \/ Get(roadmapRows[r].progress) = Len(roadmapRows[r].lessons)

\* C24 as stated: completed_lessons of a user_progress row never exceeds its
\* total_lessons, so the completion percentage of the dashboard stays within
\* 0..100, whatever tests are completed, a test taken again included.
C24_CompletedWithinTotal ==
  /\ userProgress.completed_lessons <= userProgress.total_lessons
  /\ completionPercentage \in 0..100

\* C25 as stated: when completeTest operations of several sessions interleave
\* no update is lost: once they have finished, completed_lessons has grown by
\* one and total_time_spent by 30 for every operation that wrote, and
\* average_accuracy is the mean of their scores.
C25_NoLostUpdate ==
  (\A s \in Sessions : sessionPc[s] = "idle")
  => LET n == Len(scores)
         avg == userProgress.average_accuracy
     IN /\ userProgress.completed_lessons = n
        /\ userProgress.total_time_spent = n * TimePerTest
        /\ avg.num * n = Sum(scores) * avg.den

\* the timer of the call changes to fired in this step
TimerFiring == timer # "fired" /\ timer' = "fired"

\* a settled call has no armed timer: the timer was cleared, or it fired
\* before the call settled
C30_NoArmedTimer == pc = "settled" => timer \in {"cleared", "fired"}

\* C30: on every exit path of makeGeminiRequest, a value returned or an error
\* thrown, the timer of the call has been cleared or has already fired, and
\* no timer fires once its call has settled.
C30_TimerCleared ==
  []C30_NoArmedTimer /\ [][pc = "settled" => ~TimerFiring]_vars

\* fetch rejected before any response: the catch block alone cleared the timer
C30_Witness ==
  /\ pc = "settled" /\ timer = "cleared" /\ status = 0
  /\ execResult.kind = "error" /\ execResult.error.name = "TypeError"

\* C29: while no signIn or signUp call is pending, loading becomes false:
\* after the AuthProvider mounts, whether getSession and the profile fetch
\* succeed, fail or never answer, and after a signIn or signUp call has
\* settled, signIn with its auth event delivered.
C29_LoadingEnds == (signPc = "idle") ~> (loading = FALSE)

\* a signIn returned after its event, the profile fetch of the event timed
\* out, and loading is false
C29_Witness ==
  /\ signPc = "idle" /\ signCalls > 0 /\ authEvents > eventsAtSignIn
  /\ loading = FALSE /\ authError = "timeout" /\ user # 0

\* C26 as stated: a lesson is opened, and a completion row of it written,
\* only when the linear gating rule unlocks it: it is the first lesson or the
\* lesson before it has a completion row; over the links of the lessons
\* list, the links of the roadmap view and the Previous and Next buttons.
C26_OnlyUnlockedOpened ==
  /\ openLesson # 0
       => isLessonUnlocked(IndexOfLesson(openLesson), LessonRows, lessonCompletions)
  /\ \A k \in DOMAIN lessonCompletions :
       isLessonUnlocked(IndexOfLesson(lessonCompletions[k].lesson_id), LessonRows,
                        SubSeq(lessonCompletions, 1, k - 1))

====
